---- MODULE Spec2Model ----
(***************************************************************************)
(* A model of cautious-robot's acquisition pipeline:                       *)
(*   src/src/cautiousrobot/download.py  (resolver, skip handling, the      *)
(*       retry/backoff loop, the downsample hand-off, the per-row loop)    *)
(*   src/src/cautiousrobot/utils.py     (log_response, update_log,         *)
(*       downsample_and_save_image, check_existing_images)                 *)
(*   src/src/cautiousrobot/buddy_check.py (BuddyCheck.check_alignment)     *)
(*                                                                         *)
(* One behaviour is one or two consecutive calls of                        *)
(* download.download_images over the same manifest and destination.  The   *)
(* environment (the server's answers to HEAD and GET, the resize codec,    *)
(* the file system's answer to the write of a body) is chosen              *)
(* nondeterministically at each step that consults it.                     *)
(*                                                                         *)
(* Spec is that behaviour, with check_existing_images run between the two *)
(* calls; GuardSpec and AlignSpec are single calls of                      *)
(* check_existing_images and of check_alignment over enumerated inputs.    *)
(*                                                                         *)
(* download_images is called with subfolders=None (its default), so every  *)
(* primary file lives directly under img_dir and every downsized copy     *)
(* directly under downsample_path.                                         *)
(***************************************************************************)
EXTENDS Integers, Sequences, FiniteSets, TLC

----------------------------------------------------------------------------
(* Bounds of the model *)

\* rows of a manifest
MaxRows == 2
\* largest retry budget tried (the budgets are 0..MaxRetry)
MaxRetry == 3
\* records of an observed checksum table
MaxObserved == 2

----------------------------------------------------------------------------
(* Program constants *)

\* download.py:386, default of the parameter `wait`
wait == 3

\* REDO_CODE_LIST with 404 taken for a transient status
REDO_CODE_LIST_With404 == {403, 404, 429, 500, 502, 503, 504}

\* download.py:17
REDO_CODE_LIST == {403, 429, 500, 502, 503, 504}

\* __main__.py:23
MAIN_REDO_CODE_LIST == {429, 500, 502, 503, 504}

img_dir == "img"
downsample_path == "img_downsized"

----------------------------------------------------------------------------
(* Values *)

\* An identifier or file name is the pair splitext would cut it into:
\* [stem, ext], ext = "" when there is none.  str() of it is stem + ext.
NoExt == ""
FileName(n) == n.stem \o n.ext
\* None in the place of a file name
NoName == [stem |-> "", ext |-> NoExt]

\* A URL cell of the manifest.  na: pandas' missing value (NaN).  Otherwise
\* the cell is the text stem + ext, ext being the extension of the URL's path.
NaN == [na |-> TRUE, stem |-> "nan", ext |-> NoExt]
UrlStr(url) == url.stem \o url.ext

\* str.lower().strip() on the texts the model uses
LowerStrip(s) ==
    CASE s = "None" -> "none"
      [] s = " NULL " -> "null"
      [] s = ".JPG" -> ".jpg"
      [] OTHER -> s

\* the statuses the modelled server answers with
Statuses == {200, 204, 403, 404, 429, 500, 502, 503, 504}

\* str(response.status_code)
StatusStr(c) ==
    CASE c = 200 -> "200" [] c = 204 -> "204" [] c = 403 -> "403"
      [] c = 404 -> "404" [] c = 429 -> "429" [] c = 500 -> "500"
      [] c = 502 -> "502" [] c = 503 -> "503" [] c = 504 -> "504"

\* An outcome of requests.get: a response with a status, or an exception
Response(c) == [exc |-> FALSE, code |-> c]
Raised == [exc |-> TRUE, code |-> 0]
Outcomes == {Response(c) : c \in Statuses} \cup {Raised}
\* The servers tried.  For a manifest of one row: every server that answers
\* 200 or fails in one of two ways.  For a manifest of several rows: the
\* servers that answer 200 or else always fail in the same way, the failure
\* being a permanent status, a retryable status or an exception.
Failures == Outcomes \ {Response(200)}
BatchFailures == {Response(404), Response(503), Raised}
Servers(n) ==
    IF n = 1
    THEN {{Response(200), x, y} : x \in Failures, y \in Failures}
    ELSE {{Response(200), x} : x \in BatchFailures}
\* str(e) of the exception requests.get raised
ExcMsg == "connection error"
\* str(e) of the exception the resize step raised
ResizeMsg == "cannot identify image file"

\* The answer of the HEAD probe as get_content_type_from_url returns it:
\* the main Content-Type, or NoCT (None) when the probe raised, timed out
\* or the header is missing.
NoCT == "None"
ContentTypes == {NoCT, "image/jpeg", "image/png", "application/x-unknown"}

\* mimetypes.guess_type("file" + ext)[0]; NoCT stands for None
guess_type(ext) ==
    CASE LowerStrip(ext) = ".jpg" -> "image/jpeg"
      [] LowerStrip(ext) = ".jpeg" -> "image/jpeg"
      [] LowerStrip(ext) = ".png" -> "image/png"
      [] OTHER -> NoCT

\* mimetypes.guess_extension(content_type); NoExt stands for None
guess_extension(ct) ==
    CASE ct = "image/jpeg" -> ".jpg"
      [] ct = "image/png" -> ".png"
      [] OTHER -> NoExt

----------------------------------------------------------------------------
(* download.py: pure helpers *)

\* os.path.splitext(filename)[1], "" standing for None
extract_extension_from_filename(filename) == filename.ext

\* os.path.splitext(urlparse(url).path)[1], "" standing for None
extract_extension_from_url(url) == url.ext

\* is_url_missing_or_invalid without its test of the sentinel texts
is_url_missing_or_invalid_NoSentinels(url) ==
    \/ url.na
    \/ UrlStr(url) = ""

is_url_missing_or_invalid(url) ==
    \/ url.na
    \/ UrlStr(url) = ""
    \/ LowerStrip(UrlStr(url)) \in {"nan", "none", "null", ""}

\* What requests.head(url, timeout=10) can do: raise, time out (an exception
\* as well), or answer with headers that carry no content-type or one of
\* the content-type values below.
HeadFailures == {"raises", "timed out", "no header"}
HeadOutcomes ==
    HeadFailures \cup (ContentTypes \ {NoCT}) \cup {"image/jpeg; charset=utf-8"}

\* get_content_type_from_url treating a failed probe as a JPEG answer
get_content_type_from_url_FailsOpen(url, head) ==
    IF is_url_missing_or_invalid(url) THEN NoCT
    ELSE CASE head \in HeadFailures -> "image/jpeg"
           [] head = "image/jpeg; charset=utf-8" -> "image/jpeg"
           [] OTHER -> head

\* get_content_type_from_url, head being what requests.head does if called:
\* content_type.split(';')[0].strip(), or NoCT (None)
get_content_type_from_url(url, head) ==
    IF is_url_missing_or_invalid(url) THEN NoCT
    ELSE CASE head \in HeadFailures -> NoCT
           [] head = "image/jpeg; charset=utf-8" -> "image/jpeg"
           [] OTHER -> head

\* are_extensions_equivalent trusting the MIME types of the two extensions
\* without asking the server
are_extensions_equivalent_TrustsMime(ext1, ext2, ct) ==
    IF LowerStrip(ext1) = LowerStrip(ext2)
    THEN [eq |-> TRUE, heads |-> 0]
    ELSE [eq |-> guess_type(ext1) = guess_type(ext2) /\ guess_type(ext1) # NoCT,
          heads |-> 0]

\* are_extensions_equivalent letting the server's answer decide for any
\* two different extensions
are_extensions_equivalent_ServerDecides(ext1, ext2, ct) ==
    IF LowerStrip(ext1) = LowerStrip(ext2)
    THEN [eq |-> TRUE, heads |-> 0]
    ELSE [eq |-> ct # NoCT /\ guess_type(ext2) = ct, heads |-> 1]

\* are_extensions_equivalent asking the server before it compares the MIME
\* types of the two extensions
are_extensions_equivalent_ProbesFirst(ext1, ext2, ct) ==
    IF LowerStrip(ext1) = LowerStrip(ext2)
    THEN [eq |-> TRUE, heads |-> 0]
    ELSE [eq |-> /\ guess_type(ext1) = guess_type(ext2)
                 /\ guess_type(ext1) # NoCT
                 /\ guess_type(ext1) = ct,
          heads |-> 1]

\* are_extensions_equivalent, as a pair [eq, heads]: the verdict, and the
\* number of HEAD probes the call issued.  ct is the answer the probe gets
\* if it is issued.
are_extensions_equivalent(ext1, ext2, ct) ==
    IF LowerStrip(ext1) = LowerStrip(ext2)
    THEN [eq |-> TRUE, heads |-> 0]
    ELSE IF guess_type(ext1) # guess_type(ext2) \/ guess_type(ext1) = NoCT
    THEN [eq |-> FALSE, heads |-> 0]
    ELSE [eq |-> guess_type(ext1) = ct, heads |-> 1]

\* the error message of resolve_filename_with_extension: the texts it is
\* formatted from
MismatchMsg(name_ext, url_ext, url) == <<name_ext, url_ext, UrlStr(url)>>
NoMsg == <<>>
ResolvedAs(name, hd) == [name |-> name, error |-> FALSE, msg |-> NoMsg, heads |-> hd]
Conflict(name_ext, url_ext, url, hd) ==
    [name |-> NoName, error |-> TRUE, msg |-> MismatchMsg(name_ext, url_ext, url),
     heads |-> hd]

\* resolve_filename_with_extension probing every valid URL up front
resolve_filename_with_extension_ProbesUpFront(base_filename, url, ct) ==
    LET name_ext == extract_extension_from_filename(base_filename)
        url_ext == extract_extension_from_url(url)
        eqv == are_extensions_equivalent(name_ext, url_ext, ct)
    IN  IF is_url_missing_or_invalid(url)
        THEN ResolvedAs(base_filename, 0)
        ELSE IF name_ext # NoExt /\ url_ext # NoExt
        THEN IF eqv.eq THEN ResolvedAs(base_filename, 1)
             ELSE Conflict(name_ext, url_ext, url, 1)
        ELSE IF name_ext # NoExt
        THEN ResolvedAs(base_filename, 1)
        ELSE IF url_ext # NoExt
        THEN ResolvedAs([base_filename EXCEPT !.ext = url_ext], 1)
        ELSE IF ct # NoCT /\ guess_extension(ct) # NoExt
        THEN ResolvedAs([base_filename EXCEPT !.ext = guess_extension(ct)], 1)
        ELSE ResolvedAs(base_filename, 1)

\* resolve_filename_with_extension keeping the identifier as it is when
\* only the URL carries an extension
resolve_filename_with_extension_NoAppend(base_filename, url, ct) ==
    LET name_ext == extract_extension_from_filename(base_filename)
        url_ext == extract_extension_from_url(url)
        eqv == are_extensions_equivalent(name_ext, url_ext, ct)
    IN  IF is_url_missing_or_invalid(url)
        THEN ResolvedAs(base_filename, 0)
        ELSE IF name_ext # NoExt /\ url_ext # NoExt
        THEN IF eqv.eq THEN ResolvedAs(base_filename, eqv.heads)
             ELSE Conflict(name_ext, url_ext, url, eqv.heads)
        ELSE IF name_ext # NoExt
        THEN ResolvedAs(base_filename, 0)
        ELSE IF url_ext # NoExt
        THEN ResolvedAs(base_filename, 0)
        ELSE IF ct # NoCT /\ guess_extension(ct) # NoExt
        THEN ResolvedAs([base_filename EXCEPT !.ext = guess_extension(ct)], 1)
        ELSE ResolvedAs(base_filename, 1)

\* resolve_filename_with_extension, as [name, error, msg, heads]: the
\* resolved name (NoName for None), whether an error message is returned,
\* the message, and the number of HEAD probes issued.  ct is what
\* get_content_type_from_url returns if it is called.
resolve_filename_with_extension(base_filename, url, ct) ==
    LET name_ext == extract_extension_from_filename(base_filename)
        url_ext == extract_extension_from_url(url)
        eqv == are_extensions_equivalent(name_ext, url_ext, ct)
    IN  IF is_url_missing_or_invalid(url)
        THEN ResolvedAs(base_filename, 0)
        ELSE IF name_ext # NoExt /\ url_ext # NoExt
        THEN IF eqv.eq THEN ResolvedAs(base_filename, eqv.heads)
             ELSE Conflict(name_ext, url_ext, url, eqv.heads)
        ELSE IF name_ext # NoExt
        THEN ResolvedAs(base_filename, 0)
        ELSE IF url_ext # NoExt
        THEN ResolvedAs([base_filename EXCEPT !.ext = url_ext], 0)
        ELSE IF ct # NoCT /\ guess_extension(ct) # NoExt
        THEN ResolvedAs([base_filename EXCEPT !.ext = guess_extension(ct)], 1)
        ELSE ResolvedAs(base_filename, 1)

\* image_dir_path + "/" + image_name
PathOf(dir, image_name) == dir \o "/" \o image_name

----------------------------------------------------------------------------
(* utils.py: the log *)

\* log_response: the entry stored under `index`
LogEntry(image, file_path, response_code) ==
    [Image |-> image, file_path |-> file_path, Response_status |-> response_code]
log_response(log, index, image, file_path, response_code) ==
    (index :> LogEntry(image, file_path, response_code)) @@ log

\* update_log opening the file with mode "w"
update_log_Rewrites(file, log, index) == << log[index] >>

\* update_log: the file after the append of log[index].  A log file is the
\* sequence of the objects written to it; its text is FileLines below.
update_log(file, log, index) == Append(file, log[index])

\* json.dump(entry, log_file, indent = 4) followed by write("\n")
\* (utils.py:26-27): the lines of text one update_log call adds
json_dump(entry) ==
    << "{",
       "    \"Image\": \"" \o entry.Image \o "\",",
       "    \"file_path\": \"" \o entry.file_path \o "\",",
       "    \"Response_status\": \"" \o entry.Response_status \o "\"",
       "}" >>

\* the lines of text of a log file
RECURSIVE FileLines(_)
FileLines(file) ==
    IF file = <<>> THEN <<>>
    ELSE FileLines(SubSeq(file, 1, Len(file) - 1)) \o json_dump(file[Len(file)])

----------------------------------------------------------------------------
(* The manifests tried *)

Stem(k) == CASE k = 1 -> "f1" [] k = 2 -> "f2" [] k = 3 -> "f3" [] OTHER -> "f4"

\* the URL cells: missing (NaN), empty, a sentinel text, or an http URL
\* whose path ends in the extension ue
UrlCell(k, ue) ==
    CASE ue = "NaN" -> NaN
      [] ue = "empty" -> [na |-> FALSE, stem |-> "", ext |-> NoExt]
      [] ue = "None" -> [na |-> FALSE, stem |-> "None", ext |-> NoExt]
      [] OTHER -> [na |-> FALSE, stem |-> "http://h/" \o Stem(k), ext |-> ue]

\* (identifier extension, URL cell) of the rows tried
RowKinds ==
    { <<".jpg", ".jpg">>, <<".jpg", ".png">>, <<".jpg", ".jpeg">>,
      <<NoExt, NoExt>>, <<NoExt, ".png">>, <<".jpg", "NaN">>,
      <<".jpg", "empty">>, <<".jpg", "None">> }

Row(k, kind) ==
    [filename |-> [stem |-> Stem(k), ext |-> kind[1]],
     file_url |-> UrlCell(k, kind[2])]

\* the rows a manifest of several rows is made of: a plain row, a row whose
\* extensions need the probe, a conflicting row, a row with no URL
BatchKinds ==
    { <<".jpg", ".jpg">>, <<".jpg", ".jpeg">>, <<".jpg", ".png">>, <<".jpg", "NaN">> }

ManifestsOf(n, kindset) ==
    { [k \in 1..n |-> Row(k, kinds[k])] : kinds \in [1..n -> kindset] }

\* one row of every kind, or 2..MaxRows rows of the batch kinds
Manifests ==
    ManifestsOf(1, RowKinds) \cup UNION { ManifestsOf(n, BatchKinds) : n \in 2..MaxRows }

----------------------------------------------------------------------------
(* utils.py: check_existing_images *)

\* A cell of the filename column is the text lead + base, lead being "" or
\* "./"; a cell of the subfolder column is the text name + trail, trail
\* being "" or "/".  astype(str) of the cell:
GuardFileStr(f) == f.lead \o f.base
GuardSubStr(sub) == sub.name \o sub.trail

\* os.path.normpath without any normalisation
normpath_Identity(path) == path

\* os.path.normpath on the paths the model builds: "./" is dropped and a
\* doubled separator collapsed
normpath(path) ==
    CASE path = "./f2.jpg" -> "f2.jpg"
      [] path = "s1/./f2.jpg" -> "s1/f2.jpg"
      [] path = "s2//f1.jpg" -> "s2/f1.jpg"
      [] path = "s2//./f2.jpg" -> "s2/f2.jpg"
      [] OTHER -> path

\* A file found by gather_file_paths(img_dir) is [root, rel]: the directory
\* searched and the path below it.  os.path.relpath(f, img_dir):
relpath(f) == f.rel

\* the rows of the frame df whose in_img_dir is false (utils.py:146), each
\* kept with its index
Pending(df) == SelectSeq(df, LAMBDA r : ~r.in_img_dir)

\* check_existing_images never leaving through sys.exit
ExitsEarly_Never(filtered_df) == FALSE

\* filtered_df.empty (utils.py:149)
ExitsEarly(filtered_df) == filtered_df = <<>>

\* what check_existing_images has not yet been asked
NotRun == [status |-> "none"]

\* check_existing_images: [status |-> "exit"] for sys.exit, else the two
\* frames it returns and the number of existing files it prints
check_existing_images(img_dir_exists, existing_files, source_df, subfolders) ==
    LET existing_full_paths == { normpath(relpath(f)) : f \in existing_files }
        expected_path(row) ==
            IF subfolders
            THEN normpath(GuardSubStr(row.subfolder) \o "/" \o GuardFileStr(row.filename))
            ELSE normpath(GuardFileStr(row.filename))
        absent == [k \in DOMAIN source_df |->
                     [idx |-> k, row |-> source_df[k], in_img_dir |-> FALSE]]
        df == [k \in DOMAIN source_df |->
                 [idx |-> k, row |-> source_df[k],
                  in_img_dir |-> expected_path(source_df[k]) \in existing_full_paths]]
    IN  IF ~img_dir_exists
        THEN [status |-> "returned", df |-> absent, filtered_df |-> Pending(absent),
              printed |-> FALSE, num_existing |-> 0]
        ELSE IF ExitsEarly(Pending(df))
        THEN [status |-> "exit"]
        ELSE [status |-> "returned", df |-> df, filtered_df |-> Pending(df),
              printed |-> TRUE, num_existing |-> Cardinality(existing_files)]

\* the arguments of a call
GuardArgs(e, fs, df, sub) ==
    [img_dir_exists |-> e, existing_files |-> fs, source_df |-> df, subfolders |-> sub]
NoGuard == [args |-> GuardArgs(FALSE, {}, <<>>, FALSE), out |-> NotRun]

\* The calls tried on their own: manifests of up to MaxRows rows, with or
\* without the subfolder column, over a directory that is absent, empty,
\* or holds any of these files
GuardFilenames == { [lead |-> "", base |-> "f1.jpg"], [lead |-> "./", base |-> "f2.jpg"] }
GuardSubfolders == { [name |-> "s1", trail |-> ""], [name |-> "s2", trail |-> "/"] }
GuardRows == { [filename |-> f, subfolder |-> sub] : f \in GuardFilenames, sub \in GuardSubfolders }
GuardFrames == UNION { [1..n -> GuardRows] : n \in 0..MaxRows }
GuardDisk ==
    { [root |-> img_dir, rel |-> r] :
        r \in {"f1.jpg", "f2.jpg", "s1/f1.jpg", "s1/f2.jpg", "s2/f1.jpg", "s2/f2.jpg",
               "notes.txt"} }
GuardCalls ==
    { GuardArgs(FALSE, {}, df, sub) : df \in GuardFrames, sub \in BOOLEAN }
    \cup { GuardArgs(TRUE, fs, df, sub) :
             fs \in SUBSET GuardDisk, df \in GuardFrames, sub \in BOOLEAN }

----------------------------------------------------------------------------
(* buddy_check.py: BuddyCheck.check_alignment *)

\* a missing identifier (NaN) of the expected table
NullId == "NaN"

\* pd.merge(df, checksum_df, how = "inner") on the checksum columns, or on
\* the identifier and checksum columns when buddy_id is given: the pairs
\* <<n, m>> of a row of df and a record of checksum_df with equal keys
merge(df, checksum_df, buddy_id) ==
    { pair \in (DOMAIN df) \X (DOMAIN checksum_df) :
        /\ df[pair[1]].checksum = checksum_df[pair[2]].md5
        /\ buddy_id => df[pair[1]].id = checksum_df[pair[2]].filename }

\* check_alignment: [none |-> TRUE] for None, else the frame missing_imgs
check_alignment(img_df, checksum_df, buddy_id) ==
    LET df == SelectSeq(img_df, LAMBDA e : e.id # NullId)
        dl_match == merge(df, checksum_df, buddy_id)
        downloaded_ids == { df[pair[1]].id : pair \in dl_match }
    IN  IF Cardinality(dl_match) < Len(df)
        THEN [status |-> "returned", none |-> FALSE,
              missing_imgs |-> SelectSeq(df, LAMBDA e : e.id \notin downloaded_ids)]
        ELSE [status |-> "returned", none |-> TRUE, missing_imgs |-> <<>>]

\* what no report file holds
NoReport == [written |-> FALSE, rows |-> <<>>]

\* validate_download on two CSV files that hold the tables img_df and
\* checksum_df with the expected columns: the value it returns (None, the
\* function has no return statement), the exception it raises (none), and
\* the '<metadata>_missing.csv' report it writes
validate_download(img_df, checksum_df, buddy_id) ==
    LET missing_imgs == check_alignment(img_df, checksum_df, buddy_id)
    IN  [status |-> "returned",
         raised |-> "",
         none |-> TRUE,
         missing_imgs |-> <<>>,
         report |-> IF missing_imgs.none
                    THEN NoReport
                    ELSE [written |-> TRUE, rows |-> missing_imgs.missing_imgs]]

AlignArgs(img_df, checksum_df, buddy_id) ==
    [img_df |-> img_df, checksum_df |-> checksum_df, buddy_id |-> buddy_id]
NoAlign == [args |-> AlignArgs(<<>>, <<>>, FALSE), out |-> NotRun]

\* The calls tried: expected tables of up to MaxRows rows, observed tables
\* of up to MaxObserved records (repeats allowed), with and without the
\* observed identifier column
AlignIds == {"a.jpg", "b.jpg"}
AlignSums == {"c1", "c2"}
ExpectedRows == { [id |-> x, checksum |-> c] : x \in AlignIds \cup {NullId}, c \in AlignSums }
ObservedRows == { [filename |-> x, md5 |-> c] : x \in AlignIds, c \in AlignSums }
AlignCalls ==
    { AlignArgs(e, o, b) :
        e \in UNION { [1..n -> ExpectedRows] : n \in 0..MaxRows },
        o \in UNION { [1..n -> ObservedRows] : n \in 0..MaxObserved },
        b \in BOOLEAN }

----------------------------------------------------------------------------
(* State *)

VARIABLES
    data,               \* the manifest: a sequence of rows [filename, file_url]
    retry,              \* parameter retry of download_images
    downsample,         \* parameter downsample: 0 (None) or the side length
    files,              \* primary files on disk: path -> body
    dsfiles,            \* downsized files on disk: path -> the body resized
    dirs,               \* the directories that exist, of img_dir and downsample_path
    logfile,            \* the success log file: a sequence of entries
    errfile,            \* the error log file: a sequence of entries
    log_data,           \* dict of download_images: index -> entry
    log_errors,         \* dict of download_images: index -> entry
    pc,                 \* "loop", "fetch", "downsample", "done", "aborted"
    i,                  \* the row being processed, or just finished
    image_name,         \* the resolved name of row i
    redo,               \* download_single_image's local
    attempts_remaining, \* download_single_image's local
    second,             \* FALSE in the first call of download_images
    server,             \* the outcomes requests.get can have in this behaviour
    guard,              \* the last call of check_existing_images: [args, out]
    align,              \* the call of BuddyCheck.check_alignment: [args, out]
    resolved,           \* the call of resolve_filename_with_extension: [args, out]
    mainrun,            \* the run of main: [args, out]
    starting_index,     \* parameter starting_index of __main__.download_images
    \* history of row i in this call (not program state)
    result,             \* how row i ended
    outcomes,           \* the outcomes of row i's GETs, in order
    heads,              \* number of HEAD probes issued for row i
    probe,              \* how the HEAD probe of row i ended, if one was issued
    sleeps,             \* the time.sleep calls made for row i, in order
    dsCalls,            \* calls of downsample_and_save_image for row i
    okMark,             \* Len(logfile) when row i began
    errMark,            \* Len(errfile) when row i began
    filesMark           \* files when row i began

config == <<data, retry, downsample, server>>
disk == <<files, dsfiles, dirs>>
logs == <<logfile, errfile, log_data, log_errors>>
locals == <<image_name, redo, attempts_remaining>>
history == <<result, outcomes, heads, probe, sleeps, dsCalls, okMark, errMark, filesMark>>
\* the state of download_images
download == <<config, disk, logs, pc, i, locals, second, history>>
\* the calls modelled on their own
aside == <<resolved, mainrun, starting_index>>
vars == <<download, guard, align, aside>>

EmptyDict == <<>>

\* no probe was issued for the row
Unasked == "unasked"
\* what is kept of a probe: whether requests.head raised, timed out or
\* carried no content type, or answered with one
ProbeSeen(hd, head) ==
    IF hd = 0 THEN Unasked ELSE IF head \in HeadFailures THEN "failed" ELSE "answered"

\* main has not run
NoMain == [args |-> <<>>, out |-> NotRun]

\* resolve_filename_with_extension was not called
NoResolve == [args |-> [base_filename |-> NoName, url |-> NaN,
                        head |-> "raises", head2 |-> "raises"],
              out |-> NotRun]

Init ==
    /\ data \in Manifests
    /\ retry \in 0..MaxRetry
    /\ downsample \in {0, 256}
    /\ server \in Servers(Len(data))
    /\ files = <<>>
    /\ dsfiles = <<>>
    /\ dirs = {}
    /\ logfile = <<>>
    /\ errfile = <<>>
    /\ log_data = EmptyDict
    /\ log_errors = EmptyDict
    /\ pc = "loop"
    /\ i = 0
    /\ image_name = NoName
    /\ redo = TRUE
    /\ attempts_remaining = 0
    /\ second = FALSE
    /\ result = "none"
    /\ outcomes = <<>>
    /\ heads = 0
    /\ probe = Unasked
    /\ sleeps = <<>>
    /\ dsCalls = 0
    /\ okMark = 0
    /\ errMark = 0
    /\ filesMark = <<>>
    /\ guard = NoGuard
    /\ align = NoAlign
    /\ resolved = NoResolve
    /\ mainrun = NoMain
    /\ starting_index = 0

\* the body the server sends for `url` during this call
Body(url) == [url |-> UrlStr(url), second |-> second]

\* download_images leaving its loop after the first row
AfterRow_StopsAtFirst(k) == "done"

\* where the for loop of download_images stands once row k is finished
AfterRow(k) == IF k = Len(data) THEN "done" ELSE "loop"


----------------------------------------------------------------------------
(* download_images: one pass of the for loop, up to the call of
   download_single_image *)

\* handle_download_skip: the dict log_errors it returns
handle_download_skip(log, index, name, url, error_code) ==
    log_response(log, index, name,
                 IF url.na \/ UrlStr(url) # "" THEN UrlStr(url) ELSE "N/A",
                 error_code)

\* the row is skipped with an entry in the error log (download.py:414-418
\* and 424-427)
SkipRow(k, url, error_code, hd) ==
    /\ log_errors' = handle_download_skip(log_errors, k,
                                          FileName(data[k].filename), url, error_code)
    /\ errfile' = update_log(errfile, log_errors', k)
    /\ result' = error_code
    /\ heads' = hd
    /\ pc' = AfterRow(k)
    /\ image_name' = NoName
    /\ UNCHANGED <<logfile, log_data, redo, attempts_remaining>>

\* the resolved file is on disk already (download.py:430-431)
ExistingRow(k, name, hd) ==
    /\ result' = "exists"
    /\ heads' = hd
    /\ pc' = AfterRow(k)
    /\ image_name' = name
    /\ UNCHANGED <<logs, redo, attempts_remaining>>

\* download_single_image is called (download.py:434, 270-273); with no
\* budget its loop body never runs and it returns False at once
EnterFetch(k, name, hd) ==
    /\ redo' = TRUE
    /\ attempts_remaining' = retry
    /\ image_name' = name
    /\ heads' = hd
    /\ result' = IF retry > 0 THEN "fetching" ELSE "failed"
    /\ pc' = IF retry > 0 THEN "fetch" ELSE AfterRow(k)
    /\ UNCHANGED logs

\* download_images without its test for the file on disk
AlreadyExists_Never(name) == FALSE

\* os.path.exists(image_dir_path + "/" + image_name) (download.py:430)
AlreadyExists(name) == PathOf(img_dir, FileName(name)) \in DOMAIN files

StartRow ==
    /\ pc = "loop"
    /\ i < Len(data)
    /\ LET k == i + 1
           url == data[k].file_url
       IN  /\ i' = k
           /\ okMark' = Len(logfile)
           /\ errMark' = Len(errfile)
           /\ filesMark' = files
           /\ outcomes' = <<>>
           /\ sleeps' = <<>>
           /\ dsCalls' = 0
           /\ IF is_url_missing_or_invalid(url)
              THEN /\ SkipRow(k, url, "invalid url", 0)
                   /\ probe' = Unasked
              ELSE \E head \in HeadOutcomes :
                     LET ct == get_content_type_from_url(url, head)
                         r == resolve_filename_with_extension(data[k].filename, url, ct)
                     IN  /\ probe' = ProbeSeen(r.heads, head)
                         /\ IF r.error
                            THEN SkipRow(k, url, "extension mismatch", r.heads)
                            ELSE IF AlreadyExists(r.name)
                            THEN ExistingRow(k, r.name, r.heads)
                            ELSE EnterFetch(k, r.name, r.heads)
    /\ UNCHANGED <<config, disk, second, guard, align, aside>>

----------------------------------------------------------------------------
(* download_single_image: one pass of the while loop *)

\* how download_single_image treats an outcome of requests.get
Classify(out) ==
    IF out.exc THEN "exception"
    ELSE IF out.code = 200 THEN "success"
    ELSE IF out.code \in REDO_CODE_LIST THEN "retry"
    ELSE "other"

\* BackoffWait doubling from `wait` itself: wait, 2*wait, 4*wait
BackoffWait_FromWait(code, left) ==
    IF code = 403 THEN wait * 2 ^ (retry - left - 1) ELSE wait

\* the sleep before the next GET after a retryable status; left is
\* attempts_remaining after the decrement
BackoffWait(code, left) ==
    IF code = 403 THEN wait * 2 ^ (retry - left) ELSE wait

\* LogError keeping the entry in memory, to be written when the batch ends
LogError_Deferred(response_code) ==
    /\ log_errors' = log_response(log_errors, i, FileName(image_name),
                                  UrlStr(data[i].file_url), response_code)
    /\ UNCHANGED <<logfile, errfile, log_data>>

\* the error entry of row i is appended
LogError(response_code) ==
    /\ log_errors' = log_response(log_errors, i, FileName(image_name),
                                  UrlStr(data[i].file_url), response_code)
    /\ errfile' = update_log(errfile, log_errors', i)
    /\ UNCHANGED <<logfile, log_data>>

\* download_images handing every row to process_downsampling, whatever
\* download_single_image returned
ReturnFalse_ThenDownsample ==
    /\ result' = "failed"
    /\ pc' = "downsample"

\* the loop is left without success: download_single_image returns False
\* and download_images moves on to the next row
ReturnFalse ==
    /\ result' = "failed"
    /\ pc' = AfterRow(i)

\* an exception of requests.get that leaves the budget as it is
GetRaises_NoCharge ==
    /\ outcomes' = Append(outcomes, Raised)
    /\ redo' = TRUE
    /\ attempts_remaining' = attempts_remaining
    /\ UNCHANGED <<logs, result, pc>>
    /\ UNCHANGED <<files, dirs, sleeps>>

\* requests.get raises (download.py:276-286)
GetRaises ==
    /\ outcomes' = Append(outcomes, Raised)
    /\ redo' = TRUE
    /\ attempts_remaining' = attempts_remaining - 1
    /\ IF attempts_remaining' <= 0
       THEN LogError(ExcMsg) /\ ReturnFalse
       ELSE UNCHANGED <<logs, result, pc>>
    /\ UNCHANGED <<files, dirs, sleeps>>

\* Get200 without the write of the body
Get200_NoWrite(wr) ==
    /\ outcomes' = Append(outcomes, Response(200))
    /\ redo' = FALSE
    /\ log_data' = log_response(log_data, i, FileName(image_name),
                                UrlStr(data[i].file_url), StatusStr(200))
    /\ logfile' = update_log(logfile, log_data', i)
    /\ files' = files
    /\ dirs' = dirs
    /\ result' = IF wr = "ok" THEN "success" ELSE "raised"
    /\ pc' = IF wr = "ok" THEN "downsample" ELSE "aborted"
    /\ UNCHANGED <<errfile, log_errors, attempts_remaining, sleeps>>

\* status 200 (download.py:288-304); wr is the file system's answer to
\* create_image_directory and the write of the body
Get200(wr) ==
    /\ outcomes' = Append(outcomes, Response(200))
    /\ redo' = FALSE
    /\ log_data' = log_response(log_data, i, FileName(image_name),
                                UrlStr(data[i].file_url), StatusStr(200))
    /\ logfile' = update_log(logfile, log_data', i)
    /\ IF wr = "ok"
       THEN /\ dirs' = dirs \cup {img_dir}
            /\ files' = (PathOf(img_dir, FileName(image_name)) :> Body(data[i].file_url))
                        @@ files
            /\ result' = "success"
            /\ pc' = "downsample"
       ELSE /\ UNCHANGED dirs
            /\ files' = files
            /\ result' = "raised"
            /\ pc' = "aborted"
    /\ UNCHANGED <<errfile, log_errors, attempts_remaining, sleeps>>

\* GetRetryable logging the status before it looks at the budget
GetRetryable_LogsEveryTime(code) ==
    /\ outcomes' = Append(outcomes, Response(code))
    /\ redo' = TRUE
    /\ attempts_remaining' = attempts_remaining - 1
    /\ LogError(StatusStr(code))
    /\ IF attempts_remaining' <= 0
       THEN ReturnFalse /\ UNCHANGED sleeps
       ELSE /\ sleeps' = Append(sleeps, BackoffWait(code, attempts_remaining'))
            /\ UNCHANGED <<result, pc>>
    /\ UNCHANGED <<files, dirs>>

\* GetRetryable testing the budget with < 0 in place of <= 0
GetRetryable_OffByOne(code) ==
    /\ outcomes' = Append(outcomes, Response(code))
    /\ redo' = TRUE
    /\ attempts_remaining' = attempts_remaining - 1
    /\ sleeps' = Append(sleeps, BackoffWait(code, attempts_remaining'))
    /\ IF attempts_remaining' <= 0
       THEN ReturnFalse /\ UNCHANGED logs
       ELSE UNCHANGED <<logs, result, pc>>
    /\ UNCHANGED <<files, dirs>>

\* a status of REDO_CODE_LIST (download.py:306-324)
GetRetryable(code) ==
    /\ outcomes' = Append(outcomes, Response(code))
    /\ redo' = TRUE
    /\ attempts_remaining' = attempts_remaining - 1
    /\ IF attempts_remaining' <= 0
       THEN LogError(StatusStr(code)) /\ ReturnFalse /\ UNCHANGED sleeps
       ELSE /\ sleeps' = Append(sleeps, BackoffWait(code, attempts_remaining'))
            /\ UNCHANGED <<logs, result, pc>>
    /\ UNCHANGED <<files, dirs>>

\* any other status (download.py:325-336)
GetOther(code) ==
    /\ outcomes' = Append(outcomes, Response(code))
    /\ redo' = FALSE
    /\ LogError(StatusStr(code))
    /\ ReturnFalse
    /\ UNCHANGED <<files, dirs, attempts_remaining, sleeps>>

Attempt ==
    /\ pc = "fetch"
    /\ redo
    /\ attempts_remaining > 0
    /\ \E out \in server :
         CASE Classify(out) = "exception" -> GetRaises
           [] Classify(out) = "success" -> \E wr \in {"ok", "oserror"} : Get200(wr)
           [] Classify(out) = "retry" -> GetRetryable(out.code)
           [] Classify(out) = "other" -> GetOther(out.code)
    /\ UNCHANGED <<config, dsfiles, i, image_name, second,
                   heads, probe, dsCalls, okMark, errMark, filesMark, guard, align, aside>>

----------------------------------------------------------------------------
(* process_downsampling and utils.downsample_and_save_image *)

\* a failed resize logged under the name of the primary file
DownsizedName_NoPrefix(name) == name

\* the name under which a failed resize is logged (utils.py:81)
DownsizedName(name) == "downsized_" \o name

\* process_downsampling resizing also over a downsized copy that exists
DownsampleNotCalled_IgnoresExisting(dpath) == downsample = 0

\* process_downsampling returns before calling downsample_and_save_image
\* (download.py:359-368)
DownsampleNotCalled(dpath) == downsample = 0 \/ dpath \in DOMAIN dsfiles

ProcessDownsampling ==
    /\ pc = "downsample"
    /\ LET name == FileName(image_name)
           dpath == PathOf(downsample_path, name)
       IN  IF DownsampleNotCalled(dpath)
           THEN UNCHANGED <<dsfiles, dirs, logs, dsCalls>>
           ELSE /\ dsCalls' = dsCalls + 1
                /\ dirs' = dirs \cup {downsample_path}
                /\ \E raises \in BOOLEAN :
                     IF raises
                     THEN /\ log_errors' = log_response(log_errors, i, DownsizedName(name),
                                               UrlStr(data[i].file_url), ResizeMsg)
                          /\ errfile' = update_log(errfile, log_errors', i)
                          /\ UNCHANGED <<dsfiles, logfile, log_data>>
                     ELSE /\ dsfiles' = (dpath :> files[PathOf(img_dir, name)]) @@ dsfiles
                          /\ UNCHANGED logs
    /\ pc' = AfterRow(i)
    /\ UNCHANGED <<config, files, i, locals, second,
                   result, outcomes, heads, probe, sleeps, okMark, errMark, filesMark, guard, align, aside>>

----------------------------------------------------------------------------
(* download_images is called again, over the same manifest and destination.
   The primary files are as the first call left them, or, once downsized
   copies exist, have been moved away from img_dir in the meantime. *)

Rerun ==
    /\ pc \in {"done", "aborted"}
    /\ ~second
    /\ second' = TRUE
    /\ log_data' = EmptyDict
    /\ log_errors' = EmptyDict
    /\ pc' = "loop"
    /\ i' = 0
    /\ image_name' = NoName
    /\ redo' = TRUE
    /\ attempts_remaining' = 0
    /\ result' = "none"
    /\ outcomes' = <<>>
    /\ heads' = 0
    /\ probe' = Unasked
    /\ sleeps' = <<>>
    /\ dsCalls' = 0
    /\ okMark' = Len(logfile)
    /\ errMark' = Len(errfile)
    /\ \E kept \in (IF dsfiles = <<>> THEN {TRUE} ELSE BOOLEAN) :
         /\ files' = (IF kept THEN files ELSE <<>>)
         /\ filesMark' = files'
    /\ guard' = NoGuard
    /\ UNCHANGED <<config, dsfiles, dirs, logfile, errfile, align, aside>>

----------------------------------------------------------------------------
(* check_existing_images is called on the manifest and img_dir between the
   two calls of download_images *)

\* the file names a row of the manifest can be resolved to
ResolvedNames ==
    { Stem(k) \o e : k \in 1..Len(data), e \in {NoExt, ".jpg", ".jpeg", ".png"} }

\* gather_file_paths(img_dir): the files below img_dir
gather_file_paths ==
    { [root |-> img_dir, rel |-> n] : n \in { m \in ResolvedNames : PathOf(img_dir, m) \in DOMAIN files } }

\* the frame handed to check_existing_images: the filename column of the
\* manifest
GuardFrameOf(manifest) ==
    [k \in DOMAIN manifest |->
       [filename |-> [lead |-> "", base |-> FileName(manifest[k].filename)],
        subfolder |-> [name |-> "", trail |-> ""]]]

GuardScan ==
    /\ pc \in {"done", "aborted"}
    /\ ~second
    /\ guard.out = NotRun
    /\ LET args == GuardArgs(img_dir \in dirs, gather_file_paths, GuardFrameOf(data), FALSE)
       IN  guard' = [args |-> args,
                     out |-> check_existing_images(args.img_dir_exists, args.existing_files,
                                                   args.source_df, args.subfolders)]
    /\ UNCHANGED <<download, align, aside>>

Next == StartRow \/ Attempt \/ ProcessDownsampling \/ Rerun \/ GuardScan

Spec == Init /\ [][Next]_vars

----------------------------------------------------------------------------
(* download_images interrupted (the process is killed, or stopped from the
   keyboard) and run again later over the same manifest and destination *)

\* what an interrupted shutil.copyfileobj leaves of the body: the file is
\* there, cut short
Partial(url) == [url |-> UrlStr(url), second |-> second, cut |-> TRUE]

\* the first call is interrupted between two steps: at the head of the
\* loop, inside download_single_image between two GETs, or after the
\* primary file was written and before process_downsampling
Interrupt ==
    /\ ~second
    /\ pc \in {"loop", "fetch", "downsample"}
    /\ pc' = "aborted"
    /\ result' = "interrupted"
    /\ UNCHANGED <<config, disk, logs, i, locals, second, outcomes, heads, probe, sleeps,
                   dsCalls, okMark, errMark, filesMark, guard, align, aside>>

\* the first call is interrupted while the body of a 200 is being copied to
\* the file (download.py:288-301): the success entry is in the log, the
\* directory and the file exist, the body is incomplete
InterruptWrite ==
    /\ ~second
    /\ pc = "fetch"
    /\ redo
    /\ attempts_remaining > 0
    /\ Response(200) \in server
    /\ outcomes' = Append(outcomes, Response(200))
    /\ redo' = FALSE
    /\ log_data' = log_response(log_data, i, FileName(image_name),
                                UrlStr(data[i].file_url), StatusStr(200))
    /\ logfile' = update_log(logfile, log_data', i)
    /\ dirs' = dirs \cup {img_dir}
    /\ files' = (PathOf(img_dir, FileName(image_name)) :> Partial(data[i].file_url)) @@ files
    /\ pc' = "aborted"
    /\ result' = "interrupted"
    /\ UNCHANGED <<config, dsfiles, errfile, log_errors, i, image_name, attempts_remaining,
                   second, heads, probe, sleeps, dsCalls, okMark, errMark, filesMark,
                   guard, align, aside>>

\* download_images is called again, over the disk and the logs as the first
\* call left them
Resume ==
    /\ pc \in {"done", "aborted"}
    /\ ~second
    /\ second' = TRUE
    /\ log_data' = EmptyDict
    /\ log_errors' = EmptyDict
    /\ pc' = "loop"
    /\ i' = 0
    /\ image_name' = NoName
    /\ redo' = TRUE
    /\ attempts_remaining' = 0
    /\ result' = "none"
    /\ outcomes' = <<>>
    /\ heads' = 0
    /\ probe' = Unasked
    /\ sleeps' = <<>>
    /\ dsCalls' = 0
    /\ okMark' = Len(logfile)
    /\ errMark' = Len(errfile)
    /\ filesMark' = files
    /\ UNCHANGED <<config, disk, logfile, errfile, guard, align, aside>>

\* the runs tried: manifests of up to MaxResumeRows rows, budgets up to
\* MaxResumeRetry
MaxResumeRows == 2
MaxResumeRetry == 2
ResumeInit ==
    /\ Init
    /\ Len(data) <= MaxResumeRows
    /\ retry <= MaxResumeRetry

ResumeNext ==
    \/ StartRow \/ Attempt \/ ProcessDownsampling
    \/ Interrupt \/ InterruptWrite \/ Resume

ResumeSpec == ResumeInit /\ [][ResumeNext]_vars

----------------------------------------------------------------------------
(* check_existing_images on its own *)

\* download_images is not running: its state is that of a fresh call over
\* an empty manifest
DownloadIdle ==
    /\ data = <<>>
    /\ retry = 0
    /\ downsample = 0
    /\ server = {Response(200)}
    /\ files = <<>>
    /\ dsfiles = <<>>
    /\ dirs = {}
    /\ logfile = <<>>
    /\ errfile = <<>>
    /\ log_data = EmptyDict
    /\ log_errors = EmptyDict
    /\ pc = "loop"
    /\ i = 0
    /\ image_name = NoName
    /\ redo = TRUE
    /\ attempts_remaining = 0
    /\ second = FALSE
    /\ result = "none"
    /\ outcomes = <<>>
    /\ heads = 0
    /\ probe = Unasked
    /\ sleeps = <<>>
    /\ dsCalls = 0
    /\ okMark = 0
    /\ errMark = 0
    /\ filesMark = <<>>

GuardInit ==
    /\ DownloadIdle
    /\ guard \in { [args |-> a, out |-> NotRun] : a \in GuardCalls }
    /\ align = NoAlign
    /\ resolved = NoResolve
    /\ mainrun = NoMain
    /\ starting_index = 0

CheckExistingImages ==
    /\ guard.out = NotRun
    /\ guard' = [guard EXCEPT !.out =
                   check_existing_images(guard.args.img_dir_exists, guard.args.existing_files,
                                         guard.args.source_df, guard.args.subfolders)]
    /\ UNCHANGED <<download, align, aside>>

GuardNext == CheckExistingImages

GuardSpec == GuardInit /\ [][GuardNext]_vars

----------------------------------------------------------------------------
(* BuddyCheck.check_alignment on its own *)

AlignInit ==
    /\ DownloadIdle
    /\ guard = NoGuard
    /\ resolved = NoResolve
    /\ mainrun = NoMain
    /\ starting_index = 0
    /\ align \in { [args |-> a, out |-> NotRun] : a \in AlignCalls }

CheckAlignment ==
    /\ align.out = NotRun
    /\ align' = [align EXCEPT !.out =
                   check_alignment(align.args.img_df, align.args.checksum_df,
                                   align.args.buddy_id)]
    /\ UNCHANGED <<download, guard, aside>>

AlignNext == CheckAlignment

AlignSpec == AlignInit /\ [][AlignNext]_vars

----------------------------------------------------------------------------
(* BuddyCheck.validate_download on its own, over the same tables *)

ValidateInit == AlignInit

ValidateDownload ==
    /\ align.out = NotRun
    /\ align' = [align EXCEPT !.out =
                   validate_download(align.args.img_df, align.args.checksum_df,
                                     align.args.buddy_id)]
    /\ UNCHANGED <<download, guard, aside>>

ValidateNext == ValidateDownload

ValidateSpec == ValidateInit /\ [][ValidateNext]_vars

----------------------------------------------------------------------------
(* main's verification of the download (__main__.py:283-299), over the same
   tables: source_df with its verifier column, and the checksum CSV *)

\* the parameters of BuddyCheck.validate_download (buddy_check.py:57)
ValidateParams ==
    {"img_source", "checksum_source", "id_col", "validation_col", "buddy_id", "buddy_col"}
\* those without a default
ValidateRequired == {"img_source", "checksum_source"}
\* the keywords main passes (__main__.py:287-290)
MainKeywords == {"source_df", "checksum_df", "source_id_col", "source_validation_col"}

\* the call buddy_check.validate_download(**keywords): TypeError when a
\* keyword is not a parameter or a required parameter is left unbound
call_validate_download(keywords, img_df, checksum_df, buddy_id) ==
    IF keywords \subseteq ValidateParams /\ ValidateRequired \subseteq keywords
    THEN validate_download(img_df, checksum_df, buddy_id)
    ELSE [status |-> "raised", raised |-> "TypeError", none |-> TRUE,
          missing_imgs |-> <<>>, report |-> NoReport]

\* main from `if args.verifier_col:` on: what it prints last and the
\* '<metadata>_missing.csv' it leaves.  BuddyCheck is built with
\* buddy_id = "filename".
verify_download(source_df, checksum_df) ==
    LET r == call_validate_download(MainKeywords, source_df, checksum_df, TRUE)
    IN  IF r.raised # ""
        THEN [status |-> "returned", said |-> "Verification of download failed",
              raised |-> r.raised, report |-> r.report]
        ELSE IF ~r.none
        THEN [status |-> "returned", said |-> "See missing.csv", raised |-> "",
              report |-> [written |-> TRUE, rows |-> r.missing_imgs]]
        ELSE [status |-> "returned", said |-> "Buddy check successful", raised |-> "",
              report |-> r.report]

VerifyInit ==
    /\ AlignInit
    /\ align.args.buddy_id

VerifyDownload ==
    /\ align.out = NotRun
    /\ align' = [align EXCEPT !.out =
                   verify_download(align.args.img_df, align.args.checksum_df)]
    /\ UNCHANGED <<download, guard, aside>>

VerifyNext == VerifyDownload

VerifySpec == VerifyInit /\ [][VerifyNext]_vars

----------------------------------------------------------------------------
(* resolve_filename_with_extension on its own: the same identifier and URL
   resolved in two executions, the probe behaving as head in the first and
   as head2 in the second *)

ResolveExts == {NoExt, ".jpg", ".JPG", ".jpeg", ".png", ".xyz"}
ResolveCalls ==
    [base_filename : {[stem |-> Stem(1), ext |-> e] : e \in ResolveExts},
     url : {UrlCell(1, ue) : ue \in ResolveExts \cup {"NaN"}},
     head : HeadOutcomes,
     head2 : HeadOutcomes]

\* the tuple resolve_filename_with_extension returns, with the number of
\* probes it issued
ResolveOnce(base_filename, url, head) ==
    resolve_filename_with_extension(base_filename, url,
                                    get_content_type_from_url(url, head))

ResolveInit ==
    /\ DownloadIdle
    /\ guard = NoGuard
    /\ align = NoAlign
    /\ resolved \in { [args |-> a, out |-> NotRun] : a \in ResolveCalls }
    /\ mainrun = NoMain
    /\ starting_index = 0

ResolveFilename ==
    /\ resolved.out = NotRun
    /\ LET a == resolved.args
           r == ResolveOnce(a.base_filename, a.url, a.head)
       IN  resolved' = [resolved EXCEPT !.out =
                          [status |-> "returned", name |-> r.name, error |-> r.error,
                           msg |-> r.msg, heads |-> r.heads,
                           again |-> ResolveOnce(a.base_filename, a.url, a.head2)]]
    /\ UNCHANGED <<download, guard, align, mainrun, starting_index>>

ResolveNext == ResolveFilename

ResolveSpec == ResolveInit /\ [][ResolveNext]_vars

----------------------------------------------------------------------------
(* The file-system steps that follow a 200 for a row, one at a time, while
   another process may create directories: create_image_directory and the
   write of the body in download_single_image, then process_downsampling
   and downsample_and_save_image.  pc is "exists", "makedirs", "write" for
   the primary directory, "ds_exists", "ds_makedirs", "resize" for the
   downsized one, "done" when the row is finished and "aborted" when an
   exception has left download_images. *)

\* the rows tried: the resolved name is the identifier, the identifier with
\* the URL's extension, or the identifier with a probed extension
StoreKinds == { <<".jpg", ".jpg">>, <<".jpg", ".jpeg">>, <<NoExt, ".png">>, <<NoExt, NoExt>> }
StoreDirs == {img_dir, downsample_path}

\* the state of download_single_image at download.py:300, the success entry
\* of the row written, for a destination another process may share
StoreInit ==
    /\ data \in ManifestsOf(1, StoreKinds)
    /\ retry = 1
    /\ downsample \in {0, 256}
    /\ server = {Response(200)}
    /\ i = 1
    /\ \E head \in HeadOutcomes :
         LET r == ResolveOnce(data[1].filename, data[1].file_url, head)
         IN  /\ ~r.error
             /\ image_name = r.name
             /\ heads = r.heads
             /\ probe = ProbeSeen(r.heads, head)
    /\ files = <<>>
    /\ dirs \in SUBSET StoreDirs
    /\ dsfiles \in {<<>>} \cup
                   (IF downsample_path \in dirs
                    THEN {PathOf(downsample_path, FileName(image_name)) :>
                            [url |-> UrlStr(data[1].file_url), second |-> TRUE]}
                    ELSE {})
    /\ log_data = log_response(EmptyDict, 1, FileName(image_name),
                               UrlStr(data[1].file_url), StatusStr(200))
    /\ logfile = update_log(<<>>, log_data, 1)
    /\ errfile = <<>>
    /\ log_errors = EmptyDict
    /\ pc = "exists"
    /\ redo = FALSE
    /\ attempts_remaining = 1
    /\ second = FALSE
    /\ result = "fetching"
    /\ outcomes = <<Response(200)>>
    /\ sleeps = <<>>
    /\ dsCalls = 0
    /\ okMark = 0
    /\ errMark = 0
    /\ filesMark = <<>>
    /\ guard = NoGuard
    /\ align = NoAlign
    /\ resolved = NoResolve
    /\ mainrun = NoMain
    /\ starting_index = 0

\* what the steps below leave alone
StoreFixed ==
    <<config, i, locals, second, outcomes, heads, probe, sleeps, okMark, errMark,
      filesMark, logfile, log_data, guard, align, aside>>

\* os.makedirs(path, exist_ok=False): FileExistsError when the directory is
\* there, which nothing in download_images catches
makedirs(d) ==
    IF d \in dirs
    THEN /\ result' = "raised"
         /\ UNCHANGED dirs
    ELSE /\ dirs' = dirs \cup {d}
         /\ UNCHANGED result

\* create_image_directory: os.path.exists(image_dir_path) (download.py:169)
CheckImageDir ==
    /\ pc = "exists"
    /\ pc' = IF img_dir \in dirs THEN "write" ELSE "makedirs"
    /\ UNCHANGED <<StoreFixed, disk, errfile, log_errors, result, dsCalls>>

\* create_image_directory: os.makedirs (download.py:170)
MakeImageDir ==
    /\ pc = "makedirs"
    /\ makedirs(img_dir)
    /\ pc' = IF result' = "raised" THEN "aborted" ELSE "write"
    /\ UNCHANGED <<StoreFixed, files, dsfiles, errfile, log_errors, dsCalls>>

\* the body is written (download.py:302-306); process_downsampling returns
\* at once when no downsizing is asked for or the copy exists
\* (download.py:356-364)
WriteBody ==
    /\ pc = "write"
    /\ files' = (PathOf(img_dir, FileName(image_name)) :> Body(data[i].file_url)) @@ files
    /\ result' = "success"
    /\ pc' = IF DownsampleNotCalled(PathOf(downsample_path, FileName(image_name)))
             THEN "done" ELSE "ds_exists"
    /\ UNCHANGED <<StoreFixed, dsfiles, dirs, errfile, log_errors, dsCalls>>

\* downsample_and_save_image: os.path.exists(downsample_dir_path)
\* (utils.py:70)
CheckDownsampleDir ==
    /\ pc = "ds_exists"
    /\ dsCalls' = dsCalls + 1
    /\ pc' = IF downsample_path \in dirs THEN "resize" ELSE "ds_makedirs"
    /\ UNCHANGED <<StoreFixed, disk, errfile, log_errors, result>>

\* downsample_and_save_image: os.makedirs (utils.py:71)
MakeDownsampleDir ==
    /\ pc = "ds_makedirs"
    /\ makedirs(downsample_path)
    /\ pc' = IF result' = "raised" THEN "aborted" ELSE "resize"
    /\ UNCHANGED <<StoreFixed, files, dsfiles, errfile, log_errors, dsCalls>>

\* downsample_and_save_image: the resize, or its exception logged
\* (utils.py:73-85)
Resize ==
    /\ pc = "resize"
    /\ LET name == FileName(image_name)
       IN  \E raises \in BOOLEAN :
             IF raises
             THEN /\ log_errors' = log_response(log_errors, i, DownsizedName(name),
                                                UrlStr(data[i].file_url), ResizeMsg)
                  /\ errfile' = update_log(errfile, log_errors', i)
                  /\ UNCHANGED dsfiles
             ELSE /\ dsfiles' = (PathOf(downsample_path, name) :>
                                   files[PathOf(img_dir, name)]) @@ dsfiles
                  /\ UNCHANGED <<errfile, log_errors>>
    /\ pc' = "done"
    /\ UNCHANGED <<StoreFixed, files, dirs, result, dsCalls>>

\* another process creates one of the two directories
OtherProcessMkdir ==
    /\ pc \notin {"done", "aborted"}
    /\ \E d \in StoreDirs \ dirs : dirs' = dirs \cup {d}
    /\ UNCHANGED <<StoreFixed, files, dsfiles, errfile, log_errors, result, dsCalls, pc>>

StoreNext ==
    \/ CheckImageDir \/ MakeImageDir \/ WriteBody
    \/ CheckDownsampleDir \/ MakeDownsampleDir \/ Resize
    \/ OtherProcessMkdir

StoreSpec == StoreInit /\ [][StoreNext]_vars

----------------------------------------------------------------------------
(* __main__.py: download_images, the loop the package exports.  pc is "loop"
   at the head of the for loop, "fetch" inside the while loop, "downsample"
   at `if downsample:`, "done" after the last row and "aborted" when an
   exception has left the function. *)

\* str(e) of the exception requests.get raises for a URL without a scheme
SchemaMsg == "Invalid URL"

\* `not url`: the empty string; NaN and any other text are true
NotUrl(url) == ~url.na /\ UrlStr(url) = ""

\* what requests.get(url) can do: for a cell that is no URL it raises without
\* asking any server
MainGets(url) == IF is_url_missing_or_invalid(url) THEN {Raised} ELSE server
MainExcMsg(url) == IF is_url_missing_or_invalid(url) THEN SchemaMsg ELSE ExcMsg

\* how the while loop treats an outcome of requests.get (__main__.py:106-164)
MainClassify(out) ==
    IF out.exc THEN "exception"
    ELSE IF out.code = 200 THEN "success"
    ELSE IF out.code \in MAIN_REDO_CODE_LIST THEN "retry"
    ELSE "other"

\* One pass of the while loop on outcome `out`, wr being the file system's
\* answer to the write: the budget left, whether the loop is left, the
\* response code logged as an error ("" for none), whether the success entry
\* is written, and the sleeps made.
main_pass(out, wr) ==
    LET left == attempts_remaining - 1
        url == data[i].file_url
    IN  CASE MainClassify(out) = "exception" ->
               [redo |-> TRUE, left |-> left, ends |-> left <= 0,
                err |-> IF left <= 0 THEN MainExcMsg(url) ELSE "",
                ok |-> FALSE, write |-> "none", slept |-> <<>>]
          [] MainClassify(out) = "success" ->
               [redo |-> FALSE, left |-> attempts_remaining, ends |-> TRUE,
                err |-> "", ok |-> TRUE, write |-> wr, slept |-> <<>>]
          [] MainClassify(out) = "retry" ->
               [redo |-> TRUE, left |-> left, ends |-> left <= 0,
                err |-> IF left <= 0 THEN StatusStr(out.code) ELSE "",
                ok |-> FALSE, write |-> "none",
                slept |-> IF left <= 0 THEN <<>> ELSE <<wait>>]
          [] MainClassify(out) = "other" ->
               [redo |-> FALSE, left |-> attempts_remaining, ends |-> TRUE,
                err |-> StatusStr(out.code), ok |-> FALSE, write |-> "none",
                slept |-> <<>>]

\* the for loop takes the next row (__main__.py:82-105)
MainStartRow ==
    /\ pc = "loop"
    /\ i < Len(data)
    /\ LET k == i + 1
           url == data[k].file_url
           name == data[k].filename
       IN  /\ i' = k
           /\ okMark' = Len(logfile)
           /\ errMark' = Len(errfile)
           /\ filesMark' = files
           /\ outcomes' = <<>>
           /\ sleeps' = <<>>
           /\ dsCalls' = 0
           /\ heads' = 0
           /\ probe' = Unasked
           /\ IF k - 1 < starting_index
              THEN /\ result' = "before start"
                   /\ pc' = AfterRow(k)
                   /\ image_name' = NoName
                   /\ UNCHANGED <<logs, redo, attempts_remaining>>
              ELSE IF AlreadyExists(name)
              THEN /\ result' = "exists"
                   /\ pc' = AfterRow(k)
                   /\ image_name' = name
                   /\ UNCHANGED <<logs, redo, attempts_remaining>>
              ELSE IF NotUrl(url)
              THEN /\ log_errors' = log_response(log_errors, k, FileName(name),
                                                 UrlStr(url), "no url")
                   /\ errfile' = update_log(errfile, log_errors', k)
                   /\ result' = "no url"
                   /\ pc' = "downsample"
                   /\ image_name' = name
                   /\ UNCHANGED <<logfile, log_data, redo, attempts_remaining>>
              ELSE /\ redo' = TRUE
                   /\ attempts_remaining' = retry
                   /\ image_name' = name
                   /\ result' = IF retry > 0 THEN "fetching" ELSE "failed"
                   /\ pc' = IF retry > 0 THEN "fetch" ELSE "downsample"
                   /\ UNCHANGED logs
    /\ UNCHANGED <<config, disk, second, guard, align, aside>>

\* one pass of the while loop (__main__.py:106-164)
MainAttempt ==
    /\ pc = "fetch"
    /\ redo
    /\ attempts_remaining > 0
    /\ \E out \in MainGets(data[i].file_url), wr \in {"ok", "oserror"} :
         LET n == main_pass(out, wr)
         IN  /\ outcomes' = Append(outcomes, out)
             /\ redo' = n.redo
             /\ attempts_remaining' = n.left
             /\ sleeps' = sleeps \o n.slept
             /\ IF n.err # ""
                THEN LogError(n.err)
                ELSE IF n.ok
                THEN /\ log_data' = log_response(log_data, i, FileName(image_name),
                                                 UrlStr(data[i].file_url), StatusStr(200))
                     /\ logfile' = update_log(logfile, log_data', i)
                     /\ UNCHANGED <<errfile, log_errors>>
                ELSE UNCHANGED logs
             /\ IF n.write = "ok"
                THEN /\ dirs' = dirs \cup {img_dir}
                     /\ files' = (PathOf(img_dir, FileName(image_name)) :>
                                    Body(data[i].file_url)) @@ files
                ELSE UNCHANGED <<files, dirs>>
             /\ result' = IF ~n.ends THEN result
                          ELSE IF n.write = "ok" THEN "success"
                          ELSE IF n.write = "oserror" THEN "raised"
                          ELSE "failed"
             /\ pc' = IF ~n.ends THEN "fetch"
                      ELSE IF n.write = "oserror" THEN "aborted"
                      ELSE "downsample"
    /\ UNCHANGED <<config, dsfiles, i, image_name, second,
                   heads, probe, dsCalls, okMark, errMark, filesMark, guard, align, aside>>

\* `if downsample:` for a row whose file was not there when the row began,
\* whatever became of its fetch (__main__.py:166-184), and
\* downsample_and_save_image (utils.py:70-85): the resize raises when the
\* primary file is not there
MainDownsample ==
    /\ pc = "downsample"
    /\ LET name == FileName(image_name)
           dpath == PathOf(downsample_path, name)
       IN  IF DownsampleNotCalled(dpath)
           THEN UNCHANGED <<dsfiles, dirs, logs, dsCalls>>
           ELSE /\ dsCalls' = dsCalls + 1
                /\ dirs' = dirs \cup {downsample_path}
                /\ \E raises \in (IF PathOf(img_dir, name) \in DOMAIN files
                                   THEN BOOLEAN ELSE {TRUE}) :
                     IF raises
                     THEN /\ log_errors' = log_response(log_errors, i, DownsizedName(name),
                                               UrlStr(data[i].file_url), ResizeMsg)
                          /\ errfile' = update_log(errfile, log_errors', i)
                          /\ UNCHANGED <<dsfiles, logfile, log_data>>
                     ELSE /\ dsfiles' = (dpath :> files[PathOf(img_dir, name)]) @@ dsfiles
                          /\ UNCHANGED logs
    /\ pc' = AfterRow(i)
    /\ UNCHANGED <<config, files, i, locals, second,
                   result, outcomes, heads, probe, sleeps, okMark, errMark, filesMark,
                   guard, align, aside>>

\* the servers tried: they answer 200 or else fail in one way, with a
\* permanent status, a status either list retries, 403 or an exception
MainServers == {{Response(200), x} : x \in BatchFailures \cup {Response(403)}}

\* the calls tried: the manifests of one row and of two rows, files of an
\* earlier run in img_dir or none, the first row or the second to start at
MainLoopInit ==
    /\ data \in ManifestsOf(1, RowKinds) \cup ManifestsOf(2, BatchKinds)
    /\ retry \in 0..MaxRetry
    /\ downsample \in {0, 256}
    /\ server \in MainServers
    /\ starting_index \in {0, 1}
    /\ files \in {<<>>, PathOf(img_dir, FileName(data[1].filename)) :>
                            [url |-> UrlStr(data[1].file_url), second |-> TRUE]}
    /\ dsfiles = <<>>
    /\ dirs = IF files = <<>> THEN {} ELSE {img_dir}
    /\ logfile = <<>>
    /\ errfile = <<>>
    /\ log_data = EmptyDict
    /\ log_errors = EmptyDict
    /\ pc = "loop"
    /\ i = 0
    /\ image_name = NoName
    /\ redo = TRUE
    /\ attempts_remaining = 0
    /\ second = FALSE
    /\ result = "none"
    /\ outcomes = <<>>
    /\ heads = 0
    /\ probe = Unasked
    /\ sleeps = <<>>
    /\ dsCalls = 0
    /\ okMark = 0
    /\ errMark = 0
    /\ filesMark = files
    /\ guard = NoGuard
    /\ align = NoAlign
    /\ resolved = NoResolve
    /\ mainrun = NoMain

MainLoopNext == MainStartRow \/ MainAttempt \/ MainDownsample

MainLoopSpec == MainLoopInit /\ [][MainLoopNext]_vars

----------------------------------------------------------------------------
(* __main__.py: main, from its arguments, the CSV, the user's answer and the
   output directory to the calls it makes or the message it exits with *)

\* str.lower() on the column names the model uses
LowerCol(c) == IF c = "Filename" THEN "filename" ELSE c

\* sys.exit(message) after the steps taken so far, of process_csv, input,
\* download_images, get_checksums and validate_download
Exit(message, steps) == [status |-> "exit", message |-> message, steps |-> steps]

\* the columns main asks process_csv for (__main__.py:199-205)
ExpectedCols(args) ==
    {LowerCol(args.img_name_col), "file_url"} \cup
    (IF args.subdir_col # "" THEN {LowerCol(args.subdir_col)} ELSE {})

\* process_csv raises: a column asked for is not among the lower-cased
\* headers of the CSV (utils.py:41-49)
MissingCols(args) == ExpectedCols(args) \ {LowerCol(h) : h \in args.headers}

\* the rows of data_df with a filename: data_df[filename_col].notna()
NotNa(data_df) == SelectSeq(data_df, LAMBDA row : row.filename # NullId)

\* main taking any filename column for a unique identifier
FilenameNotUnique_Never(data_df) == FALSE

\* the number of rows with a filename differs from
\* data_df[filename_col].nunique() (__main__.py:214)
FilenameNotUnique(data_df) ==
    Len(NotNa(data_df)) #
        Cardinality({NotNa(data_df)[k].filename : k \in DOMAIN NotNa(data_df)})

\* rows with a URL and no filename (__main__.py:216)
UrlsNoName(data_df) ==
    SelectSeq(data_df, LAMBDA row : row.filename = NullId /\ row.file_url # NullId)

\* ignore.lower() != "y"
Declined(answer) == answer \notin {"y", "Y"}

\* main (__main__.py:191-299); checksums_ok: get_checksums and the reading
\* of its CSV raise nothing, without which main returns before verifying
main(args) ==
    IF args.csv_path.ext # ".csv"
    THEN Exit("Expected CSV for input file; extension should be '.csv'", <<>>)
    ELSE IF MissingCols(args) # {}
    THEN Exit("The CSV is missing column(s). Please adjust inputs and try again.",
              <<"process_csv">>)
    ELSE IF FilenameNotUnique(args.data_df)
    THEN Exit("not a unique identifier for this dataset", <<"process_csv">>)
    ELSE LET asked == UrlsNoName(args.data_df) # <<>>
             sofar == IF asked THEN <<"process_csv", "input">> ELSE <<"process_csv">>
         IN  IF asked /\ Declined(args.answer)
             THEN Exit("Exited without executing.", sofar)
             ELSE IF args.img_dir_exists
             THEN Exit("already exists. Exited without executing.", sofar)
             ELSE [status |-> "returned",
                   message |-> "",
                   source_df |-> NotNa(args.data_df),
                   steps |-> sofar \o <<"download_images", "get_checksums">> \o
                             (IF args.checksums_ok /\ args.verifier_col
                              THEN <<"validate_download">> ELSE <<>>)]

\* the CSVs tried: up to MaxMainRows rows, a filename or none, a URL or none
MaxMainRows == 2
MainRows == [filename : {"a.jpg", "b.jpg", NullId}, file_url : {"http://h/x", NullId}]
MainFrames == UNION { [1..n -> MainRows] : n \in 0..MaxMainRows }
MainCalls ==
    [csv_path : {[stem |-> "data", ext |-> e] : e \in {".csv", ".CSV", ".txt"}},
     headers : SUBSET {"Filename", "file_url", "subfolder"},
     img_name_col : {"filename"},
     subdir_col : {"", "subfolder"},
     data_df : MainFrames,
     answer : {"y", "Y", "n"},
     img_dir_exists : BOOLEAN,
     checksums_ok : BOOLEAN,
     verifier_col : BOOLEAN]

MainInit ==
    /\ DownloadIdle
    /\ guard = NoGuard
    /\ align = NoAlign
    /\ resolved = NoResolve
    /\ mainrun \in { [args |-> a, out |-> NotRun] : a \in MainCalls }
    /\ starting_index = 0

Main ==
    /\ mainrun.out = NotRun
    /\ mainrun' = [mainrun EXCEPT !.out = main(mainrun.args)]
    /\ UNCHANGED <<download, guard, align, resolved, starting_index>>

MainNext == Main

MainSpec == MainInit /\ [][MainNext]_vars

----------------------------------------------------------------------------
(* Vocabulary of the properties *)

\* the entries appended to the two log files since row i began
OkNew == SubSeq(logfile, okMark + 1, Len(logfile))
ErrNew == SubSeq(errfile, errMark + 1, Len(errfile))

\* a row is under way or finished
InRow == i >= 1
\* the manifest row and its cells
CurUrl == data[i].file_url
CurId == FileName(data[i].filename)
CurName == FileName(image_name)
CurPath == PathOf(img_dir, CurName)

\* the entries of a log that carry the name of a primary artifact of row i
\* (and not that of its downsized copy)
IsPrimary(e) == e.Image \in {CurId, CurName}
PrimaryOf(log) == SelectSeq(log, IsPrimary)
DownsizedOf(log) == SelectSeq(log, LAMBDA e : e.Image = "downsized_" \o CurName)

\* the retryable outcomes, as the specification lists them
RetryableStatuses == {403, 429, 500, 502, 503, 504}
IsRetryable(out) == out.exc \/ out.code \in RetryableStatuses
\* what the error log records of an outcome
Recorded(out) == IF out.exc THEN ExcMsg ELSE StatusStr(out.code)

\* download_single_image was called for row i and has returned or raised
FetchEnded == InRow /\ result \in {"success", "raised", "failed"}
\* row i was skipped for an error of the input data
SkippedForInput == InRow /\ result \in {"invalid url", "extension mismatch"}

----------------------------------------------------------------------------
(* C1 *)

\* C1: every row handed to download_single_image with a budget of at least
\* one has, once its loop has ended, exactly one primary entry appended in
\* this call: either one in the success log and none in the error log, or
\* one in the error log and none in the success log; the entry names the
\* row's file and URL.
C1_OneEntryPerFetchedRow ==
    (FetchEnded /\ retry >= 1) =>
        /\ Len(OkNew) + Len(PrimaryOf(ErrNew)) = 1
        /\ Len(PrimaryOf(OkNew)) = Len(OkNew)
        /\ \A k \in 1..Len(OkNew) : OkNew[k].file_path = UrlStr(CurUrl)
        /\ \A k \in 1..Len(ErrNew) : ErrNew[k].file_path = UrlStr(CurUrl)

\* a row that spent its whole budget of three on failures, the last one an
\* exception
C1_Witness ==
    /\ FetchEnded /\ retry = 3 /\ result = "failed"
    /\ Len(outcomes) = 3 /\ outcomes[3].exc
    /\ Len(ErrNew) = 1 /\ OkNew = <<>>

----------------------------------------------------------------------------
(* C2 *)

\* C2: whenever a GET of row i is answered 200 (after k < retry retryable
\* outcomes), that GET is the row's last one, it is within the budget, the
\* success log has gained exactly the row's entry, the error log has gained
\* no primary entry (and nothing at all when download_single_image
\* returns), and, unless the file system refused the write, success is
\* reported and the body is on disk at the resolved path.
C2_SuccessAfterRetries ==
    InRow =>
      \A j \in 1..Len(outcomes) :
        outcomes[j] = Response(200) =>
          /\ j = Len(outcomes)
          /\ j <= retry
          /\ \A h \in 1..(j - 1) : IsRetryable(outcomes[h])
          /\ OkNew = << LogEntry(CurName, UrlStr(CurUrl), "200") >>
          /\ PrimaryOf(ErrNew) = <<>>
          /\ pc = "downsample" => ErrNew = <<>>
          /\ result \in {"success", "raised"}
          /\ result = "success" =>
               /\ CurPath \in DOMAIN files
               /\ files[CurPath] = Body(CurUrl)

\* budget three: an exception, a retryable status, then 200
C2_Witness ==
    /\ InRow /\ retry = 3 /\ Len(outcomes) = 3
    /\ outcomes[1].exc
    /\ ~outcomes[2].exc /\ outcomes[2].code \in RetryableStatuses
    /\ outcomes[3] = Response(200)
    /\ result = "success" /\ CurPath \in DOMAIN files

----------------------------------------------------------------------------
(* C3 *)

\* the state part of C3
C3_Exhausted ==
    (InRow /\ retry >= 1 /\ Len(outcomes) >= retry
       /\ \A j \in 1..retry : IsRetryable(outcomes[j])) =>
        /\ Len(outcomes) = retry
        /\ result = "failed"
        /\ pc # "fetch"
        /\ files = filesMark
        /\ OkNew = <<>>
        /\ ErrNew = << LogEntry(CurName, UrlStr(CurUrl), Recorded(outcomes[retry])) >>

\* within one call of download_images the loop never goes back to an
\* earlier row, and never enters download_single_image again for the row
\* it has left it for
C3_NoSecondAttempt ==
    (second' = second) =>
        /\ i' >= i
        /\ (i' = i /\ pc # "fetch") => pc' # "fetch"

\* C3: when the first `retry` outcomes of a row are all retryable
\* (retry >= 1), exactly `retry` GETs were issued, no file was written, the
\* success log gained nothing, the error log gained exactly one entry, which
\* records the last status or exception message, and the row is not
\* attempted again in the same call.
C3_RetryExhaustion == []C3_Exhausted /\ [][C3_NoSecondAttempt]_vars

\* budget three spent on 503, an exception and 503 again
C3_Witness ==
    /\ InRow /\ retry = 3 /\ Len(outcomes) = 3
    /\ outcomes[1] = Response(503) /\ outcomes[2].exc /\ outcomes[3] = Response(503)
    /\ result = "failed"
    /\ ErrNew = << LogEntry(CurName, UrlStr(CurUrl), "503") >>

----------------------------------------------------------------------------
(* C4 *)

\* the last outcome of row i is a response with a status other than 200
LastIsFailureStatus ==
    /\ InRow /\ outcomes # <<>>
    /\ ~outcomes[Len(outcomes)].exc
    /\ outcomes[Len(outcomes)].code # 200
LastCode == outcomes[Len(outcomes)].code

\* the state part of C4
C4_Classified ==
    LastIsFailureStatus =>
        /\ pc = "fetch" <=> (LastCode \in RetryableStatuses /\ Len(outcomes) < retry)
        /\ LastCode \notin RetryableStatuses =>
             /\ result = "failed"
             /\ ErrNew = << LogEntry(CurName, UrlStr(CurUrl), StatusStr(LastCode)) >>
             /\ OkNew = <<>>
             /\ files = filesMark

\* the step that receives a status outside the retryable set (and not 200)
\* sleeps not and writes no file
C4_NoSleepOnPermanent ==
    (/\ Len(outcomes') = Len(outcomes) + 1
     /\ ~outcomes'[Len(outcomes')].exc
     /\ outcomes'[Len(outcomes')].code \notin (RetryableStatuses \cup {200})) =>
        /\ sleeps' = sleeps
        /\ files' = files

\* C4: a non-200 response is followed by another GET of the row exactly
\* when its status is one of 403, 429, 500, 502, 503, 504 and budget
\* remains; any other non-200 status ends the row at once with exactly one
\* error entry carrying the status, no further GET, no sleep and no file.
C4_StatusClassification == []C4_Classified /\ [][C4_NoSleepOnPermanent]_vars

\* a 404 on the first attempt of a row with budget three
C4_Witness ==
    /\ InRow /\ retry = 3 /\ outcomes = << Response(404) >>
    /\ result = "failed" /\ attempts_remaining = 3
    /\ ErrNew = << LogEntry(CurName, UrlStr(CurUrl), "404") >>

\* a 403 on the first attempt of a row with budget three, to be retried
C4_WitnessRetried ==
    /\ InRow /\ retry = 3 /\ outcomes = << Response(403) >> /\ pc = "fetch"

----------------------------------------------------------------------------
(* C5 *)

\* the URL cells that hold no URL
MissingUrl(url) == url \in {UrlCell(1, "NaN"), UrlCell(1, "empty"), UrlCell(1, "None")}
\* identifier and URL both carry an extension, of different MIME types
CertainConflict(row) ==
    /\ row.filename.ext # NoExt /\ row.file_url.ext # NoExt
    /\ LowerStrip(row.filename.ext) # LowerStrip(row.file_url.ext)
    /\ guess_type(row.filename.ext) # guess_type(row.file_url.ext)

\* C5: a row with a missing or invalid URL ends as 'invalid url', a row
\* whose identifier and URL carry conflicting extensions as 'extension
\* mismatch'; such a row causes no GET, gets exactly one error entry with
\* that Response_status under its identifier, no success entry, and no
\* file is written for it.
C5_SkippedRows ==
    InRow =>
        /\ MissingUrl(CurUrl) <=> result = "invalid url"
        /\ (~MissingUrl(CurUrl) /\ CertainConflict(data[i])) => result = "extension mismatch"
        /\ result = "extension mismatch" =>
             /\ data[i].filename.ext # NoExt /\ CurUrl.ext # NoExt
             /\ LowerStrip(data[i].filename.ext) # LowerStrip(CurUrl.ext)
        /\ SkippedForInput =>
             /\ outcomes = <<>>
             /\ pc # "fetch"
             /\ OkNew = <<>>
             /\ Len(ErrNew) = 1
             /\ ErrNew[1].Image = CurId
             /\ ErrNew[1].Response_status =
                  (IF MissingUrl(CurUrl) THEN "invalid url" ELSE "extension mismatch")
             /\ files = filesMark
             /\ dsCalls = 0

\* the second row of a manifest is skipped for an extension conflict after
\* a first row was fetched
C5_Witness ==
    /\ i = 2 /\ result = "extension mismatch" /\ Len(errfile) = errMark + 1
    /\ CertainConflict(data[2])
    /\ Len(logfile) = 1

\* a row whose URL cell holds the text None is skipped
C5_WitnessSentinel ==
    /\ InRow /\ CurUrl = UrlCell(1, "None") /\ result = "invalid url"

----------------------------------------------------------------------------
(* C6 *)

\* identifier and URL carry different extensions of one known MIME type
SameKnownMime(row) ==
    /\ row.filename.ext # NoExt /\ row.file_url.ext # NoExt
    /\ LowerStrip(row.filename.ext) # LowerStrip(row.file_url.ext)
    /\ guess_type(row.filename.ext) = guess_type(row.file_url.ext)
    /\ guess_type(row.filename.ext) # NoCT

\* C6 as stated: a row skipped for an input-data error has caused no
\* network request of any kind, neither a HEAD probe nor a GET.
C6_NoRequestForSkippedRow ==
    SkippedForInput => (heads = 0 /\ outcomes = <<>>)

\* C6, amended: a row skipped for an invalid URL has caused no network
\* request of any kind; a row skipped for an extension conflict has caused
\* no GET, and exactly one HEAD probe when its two extensions differ but
\* map to the same known MIME type (the probe then decides the conflict),
\* none otherwise.
C6_NoGetForSkippedRow ==
    SkippedForInput =>
        /\ outcomes = <<>>
        /\ result = "invalid url" => heads = 0
        /\ result = "extension mismatch" =>
             heads = (IF SameKnownMime(data[i]) THEN 1 ELSE 0)

\* a row named .jpg with a URL ending in .jpeg, skipped after its probe
C6_Witness ==
    /\ InRow /\ result = "extension mismatch" /\ heads = 1
    /\ Len(ErrNew) = 1 /\ outcomes = <<>>

----------------------------------------------------------------------------
(* C7 *)

\* row i got past the resolver: image_name is its resolved name
Resolved == InRow /\ result \in {"exists", "fetching", "success", "raised", "failed"}

\* C7: in a call of download_images, and so in a second call over the same
\* manifest and destination, a resolved row is skipped as existing exactly
\* when its resolved file was on disk when the row began; such a row causes
\* no GET and no log entry; no file that was on disk when a row began has
\* its bytes changed; and a resolved row whose file was absent is handed
\* to download_single_image, which issues at least one GET when retry >= 1.
C7_Idempotence ==
    InRow =>
        /\ Resolved => (result = "exists" <=> CurPath \in DOMAIN filesMark)
        /\ result = "exists" =>
             /\ outcomes = <<>>
             /\ OkNew = <<>> /\ ErrNew = <<>>
             /\ files = filesMark
             /\ dsCalls = 0
        /\ \A p \in DOMAIN filesMark : p \in DOMAIN files /\ files[p] = filesMark[p]
        /\ (Resolved /\ CurPath \notin DOMAIN filesMark) =>
             /\ result \in {"fetching", "success", "raised", "failed"}
             /\ (retry >= 1 /\ pc # "fetch") => Len(outcomes) >= 1

\* in the second call, the second row's file, written by the first call, is
\* found and skipped after the first row was fetched again
C7_Witness ==
    /\ second /\ i = 2 /\ result = "exists"
    /\ ~files[CurPath].second
    /\ OkNew = <<>> /\ ErrNew = <<>>
    /\ \E p \in DOMAIN files : files[p].second

----------------------------------------------------------------------------
(* C8 *)

\* the resolver cannot name the row's file without asking the server
NeedsProbe(row) ==
    \/ row.filename.ext = NoExt /\ row.file_url.ext = NoExt
    \/ SameKnownMime(row)

----------------------------------------------------------------------------
(* C9 *)

\* downsample_and_save_image was called for row i and left no downsized
\* file: its resize step raised
ResizeRaised ==
    /\ InRow /\ dsCalls = 1
    /\ PathOf(downsample_path, CurName) \notin DOMAIN dsfiles

\* C9: when a row's fetch succeeded and the resize step raised, the error
\* log has gained exactly one entry, named "downsized_" + filename, the
\* success log holds exactly the row's success entry, the primary file is
\* on disk, and the call of download_images goes on.
C9_DownsampleIsolation ==
    ResizeRaised =>
        /\ result = "success"
        /\ ErrNew = << LogEntry("downsized_" \o CurName, UrlStr(CurUrl), ResizeMsg) >>
        /\ OkNew = << LogEntry(CurName, UrlStr(CurUrl), "200") >>
        /\ CurPath \in DOMAIN files
        /\ pc \in {"loop", "done"}

\* the resize of the first of two rows raised, and the loop stands before
\* the second row
C9_Witness ==
    /\ ResizeRaised /\ i = 1 /\ pc = "loop" /\ Len(data) = 2
    /\ Len(ErrNew) = 1 /\ Len(OkNew) = 1

----------------------------------------------------------------------------
(* C10 *)

\* C10: a row that ended in a terminal failure or was skipped is never
\* handed to the downsample step and gets no "downsized_" entry.
C10_NoDownsampleAfterFailure ==
    (InRow /\ result \in {"failed", "invalid url", "extension mismatch", "exists"}) =>
        /\ pc # "downsample"
        /\ dsCalls = 0
        /\ \A k \in 1..Len(ErrNew) :
             ErrNew[k].Image \notin {"downsized_" \o CurName, "downsized_" \o CurId}

\* downsampling is configured and the row used up its budget of two
C10_Witness ==
    /\ InRow /\ downsample # 0 /\ retry = 2 /\ result = "failed"
    /\ Len(outcomes) = 2 /\ pc \in {"loop", "done"}
    /\ Len(ErrNew) = 1

----------------------------------------------------------------------------
(* C11 *)

\* where the downsized copy of row i goes
CurDownsized == PathOf(downsample_path, CurName)

\* the step part of C11
C11_Step ==
    /\ (pc = "downsample" /\ (downsample = 0 \/ CurDownsized \in DOMAIN dsfiles)) =>
          /\ dsfiles' = dsfiles
          /\ dirs' = dirs
          /\ files' = files
          /\ logfile' = logfile /\ errfile' = errfile
          /\ dsCalls' = dsCalls
    /\ \A p \in DOMAIN dsfiles : p \in DOMAIN dsfiles' /\ dsfiles'[p] = dsfiles[p]

\* C11: a call of process_downsampling made when no downsample size is
\* configured, or when a file exists at the downsized destination, changes
\* no downsized file, creates no directory, appends nothing to either log
\* and does not call the resize step; and no step at all changes the
\* content of a downsized file that exists.
C11_DownsampleNoOp == [][C11_Step]_vars

\* in the second call a row is fetched again, its downsized copy of the
\* first call is found, and process_downsampling has returned without
\* resizing
C11_Witness ==
    /\ second /\ InRow /\ result = "success" /\ pc \in {"loop", "done"}
    /\ downsample # 0 /\ dsCalls = 0
    /\ CurDownsized \in DOMAIN dsfiles /\ ~dsfiles[CurDownsized].second
    /\ files[CurPath].second

\* no downsample size is configured: a fetched row gets no downsized copy
\* and no downsample directory
C11_WitnessNotConfigured ==
    /\ InRow /\ result = "success" /\ pc \in {"loop", "done"}
    /\ downsample = 0 /\ dsfiles = <<>> /\ downsample_path \notin dirs

----------------------------------------------------------------------------
(* C12 *)

\* this step issued a GET of row i
GetIssued == Len(outcomes') = Len(outcomes) + 1
\* the outcome of the GET this step issued
Got == outcomes'[Len(outcomes')]

\* the step part of C12
C12_Step ==
    (GetIssued /\ ~Got.exc) =>
        IF Got.code \in RetryableStatuses /\ Len(outcomes') < retry
        THEN sleeps' = Append(sleeps, IF Got.code = 403
                                      THEN wait * 2 ^ Len(outcomes')
                                      ELSE wait)
        ELSE sleeps' = sleeps

\* C12: the step that receives a retryable status as the n-th GET of a row
\* makes exactly one sleep when n < retry, of `wait` seconds for 429, 500,
\* 502, 503, 504 and of wait * 2^n seconds for 403, and no sleep when
\* n = retry; a step that receives any other status makes no sleep.
C12_BackoffSchedule == [][C12_Step]_vars

\* budget three spent on three 403s: sleeps of 2*wait and 4*wait, none
\* after the third
C12_Witness ==
    /\ InRow /\ retry = 3 /\ result = "failed"
    /\ outcomes = << Response(403), Response(403), Response(403) >>
    /\ sleeps = << 2 * wait, 4 * wait >>

\* a 503 then a 403 with budget three: sleeps of wait and 4*wait
C12_WitnessMixed ==
    /\ InRow /\ retry = 3 /\ pc = "fetch"
    /\ outcomes = << Response(503), Response(403) >>
    /\ sleeps = << wait, 4 * wait >>

----------------------------------------------------------------------------
(* C13 *)

\* the step part of C13
C13_Step ==
    (GetIssued /\ Got.exc /\ Len(outcomes') < retry) =>
        sleeps' = Append(sleeps, wait)

\* C13: the step in which a GET of row i raises and budget is left makes
\* exactly one sleep, of `wait` seconds, before the next GET of the row.
C13_SleepAfterException == [][C13_Step]_vars

----------------------------------------------------------------------------
(* C14 *)

\* check_existing_images was called and returned its two frames
GuardReturned == guard.out.status = "returned"
\* check_existing_images was called and left through sys.exit
GuardExited == guard.out.status = "exit"

\* the normalized relative path a row is expected at: subfolder/filename
\* when the subfolder column is given, else filename
NormalPath(row, subfolders) ==
    IF subfolders
    THEN row.subfolder.name \o "/" \o row.filename.base
    ELSE row.filename.base
\* the relative paths of the files found under img_dir
FoundUnder(args) == { f.rel : f \in args.existing_files }
\* row k of the call's manifest is among the files found
PresentRow(args, k) ==
    /\ args.img_dir_exists
    /\ NormalPath(args.source_df[k], args.subfolders) \in FoundUnder(args)
\* the rows of the call's manifest that are not
PendingRows(args) == { k \in DOMAIN args.source_df : ~PresentRow(args, k) }

\* C14: when check_existing_images returns, the annotated frame holds every
\* input row, in order, with in_img_dir true exactly when the row's
\* normalized expected path is among the files found under img_dir; the
\* pending frame holds exactly the rows with in_img_dir false, in manifest
\* order; and when img_dir does not exist the call returns with every row
\* pending.
C14_GuardPartition ==
    /\ GuardReturned =>
          LET a == guard.args
              o == guard.out
          IN  /\ Len(o.df) = Len(a.source_df)
              /\ \A k \in DOMAIN o.df :
                    /\ o.df[k].idx = k
                    /\ o.df[k].row = a.source_df[k]
                    /\ o.df[k].in_img_dir <=> PresentRow(a, k)
              /\ Len(o.filtered_df) = Cardinality(PendingRows(a))
              /\ { r.idx : r \in { o.filtered_df[n] : n \in DOMAIN o.filtered_df } }
                    = PendingRows(a)
              /\ \A n \in DOMAIN o.filtered_df :
                    /\ o.filtered_df[n] = o.df[o.filtered_df[n].idx]
                    /\ n > 1 => o.filtered_df[n - 1].idx < o.filtered_df[n].idx
    /\ (guard.out # NotRun /\ ~guard.args.img_dir_exists) =>
          /\ GuardReturned
          /\ Len(guard.out.filtered_df) = Len(guard.args.source_df)

\* with the subfolder column given, of two rows the one written "./f2.jpg"
\* under "s2/" is found at s2/f2.jpg, the other is pending
C14_Witness ==
    /\ GuardReturned /\ guard.args.subfolders /\ Len(guard.args.source_df) = 2
    /\ guard.args.source_df[2].filename.lead = "./"
    /\ guard.args.source_df[2].subfolder.trail = "/"
    /\ guard.out.df[2].in_img_dir /\ ~guard.out.df[1].in_img_dir
    /\ Len(guard.out.filtered_df) = 1

\* img_dir does not exist: both rows are pending
C14_WitnessNoDir ==
    /\ GuardReturned /\ ~guard.args.img_dir_exists
    /\ Len(guard.args.source_df) = 2 /\ Len(guard.out.filtered_df) = 2

----------------------------------------------------------------------------
(* C15 *)

\* C15 as stated: check_existing_images leaves through the 'already
\* contains all images' exit exactly when no row is pending, and returns
\* exactly when some row is.
C15_ExitIffNothingPending ==
    guard.out # NotRun => (GuardExited <=> PendingRows(guard.args) = {})

\* C15, amended: check_existing_images leaves through the 'already contains
\* all images' exit exactly when img_dir exists and no row is pending; it
\* returns whenever some row is pending, and also when img_dir does not
\* exist, even if the manifest has no rows (so that nothing is pending).
C15_ExitIffDirAndNothingPending ==
    guard.out # NotRun =>
        /\ GuardExited <=> (guard.args.img_dir_exists /\ PendingRows(guard.args) = {})
        /\ GuardReturned <=> ~GuardExited

\* both rows of a manifest are found, among other files: the call exits
C15_Witness ==
    /\ GuardExited /\ Len(guard.args.source_df) = 2
    /\ guard.args.source_df[1] # guard.args.source_df[2]
    /\ Cardinality(guard.args.existing_files) = 3

\* no img_dir and a manifest without rows: the call returns
C15_WitnessEmpty ==
    /\ GuardReturned /\ ~guard.args.img_dir_exists /\ guard.args.source_df = <<>>

----------------------------------------------------------------------------
(* C16 *)

\* C16: after a call of download_images whose last row was fetched and
\* written, the path check_existing_images tests for that row is the path
\* below img_dir the file was written to, and the scan marks the row
\* present (or exits because every row is).
C16_GuardAndFetchAgree ==
    (guard.out # NotRun /\ pc = "done" /\ result = "success") =>
        /\ normpath(GuardFileStr(guard.args.source_df[i].filename)) = CurName
        /\ GuardExited \/ guard.out.df[i].in_img_dir

----------------------------------------------------------------------------
(* C17 *)

\* seq is an initial part of longer
IsPrefix(seq, longer) ==
    /\ Len(seq) <= Len(longer)
    /\ SubSeq(longer, 1, Len(seq)) = seq

\* the step part of C17: what was in a log file stays, in place; a step
\* that records an entry in one of the dicts puts that entry at the end of
\* the dict's file, and a file grows by at most one entry in a step
C17_Step ==
    /\ IsPrefix(logfile, logfile') /\ IsPrefix(errfile, errfile')
    /\ Len(logfile') <= Len(logfile) + 1 /\ Len(errfile') <= Len(errfile) + 1
    /\ (second' = second /\ log_data' # log_data) =>
          logfile' = Append(logfile, log_data'[i'])
    /\ (second' = second /\ log_errors' # log_errors) =>
          errfile' = Append(errfile, log_errors'[i'])

\* C17: every update_log call adds its entry at the end of its file, and
\* no step of a call of download_images, of a later call over the same
\* logs, or between the calls modifies, removes or reorders an entry
\* written earlier.
C17_AppendOnly == [][C17_Step]_vars

\* the second call appends a success entry behind those of the first call
C17_Witness ==
    /\ second /\ InRow /\ okMark >= 1 /\ Len(OkNew) = 1
    /\ errMark >= 1
    /\ logfile[Len(logfile)].Image = CurName

----------------------------------------------------------------------------
(* C18 *)

\* C18: after any sequence of writes each log file has as many lines of
\* text as entries were written to it (one line per update_log call).
C18_OneLinePerEntry ==
    /\ Len(FileLines(logfile)) = Len(logfile)
    /\ Len(FileLines(errfile)) = Len(errfile)

----------------------------------------------------------------------------
(* C19 *)

\* the entry of dict under index j stands in file at one of the first `upto`
\* places
OnFile(dict, j, file, upto) == \E n \in 1..upto : file[n] = dict[j]

\* the state part of C19: whatever the dicts of download_images hold is on
\* file already, the entries of earlier rows among what was on file when
\* row i began, the entry of row i as the last one of its file
C19_Flushed ==
    /\ \A j \in DOMAIN log_data :
          IF j < i THEN OnFile(log_data, j, logfile, okMark)
          ELSE OkNew # <<>> /\ OkNew[Len(OkNew)] = log_data[j]
    /\ \A j \in DOMAIN log_errors :
          IF j < i THEN OnFile(log_errors, j, errfile, errMark)
          ELSE ErrNew # <<>> /\ ErrNew[Len(ErrNew)] = log_errors[j]

\* the step part of C19: the step in which a row's outcome is recorded is
\* the step that appends it, and no step takes an entry away
C19_Step ==
    /\ (second' = second /\ log_data' # log_data) =>
          logfile' = Append(logfile, log_data'[i'])
    /\ (second' = second /\ log_errors' # log_errors) =>
          errfile' = Append(errfile, log_errors'[i'])
    /\ Len(logfile') >= Len(logfile) /\ Len(errfile') >= Len(errfile)

\* C19: the log entry of a row's outcome is appended to its file in the
\* step that decides the outcome, hence before any request for the next
\* row; at every point of a run, and so wherever it is interrupted, the
\* entries of all rows but the one in flight are on file.
C19_SynchronousLogging == []C19_Flushed /\ [][C19_Step]_vars

\* a GET of the second row has been answered while the error entry of the
\* first row is on file
C19_Witness ==
    /\ ~second /\ i = 2 /\ pc = "fetch" /\ outcomes # <<>>
    /\ errMark = 1 /\ 1 \in DOMAIN log_errors
    /\ errfile[1] = log_errors[1]

----------------------------------------------------------------------------
(* C20 *)

\* the identifiers of the expected table are non-null and pairwise distinct
UniqueIds(img_df) ==
    /\ \A n \in DOMAIN img_df : img_df[n].id # NullId
    /\ \A n, m \in DOMAIN img_df : img_df[n].id = img_df[m].id => n = m

\* the expected rows for which no observed record has both the same
\* identifier and the same checksum, in manifest order
Unmatched(img_df, checksum_df) ==
    SelectSeq(img_df,
              LAMBDA e : ~\E m \in DOMAIN checksum_df :
                            /\ checksum_df[m].filename = e.id
                            /\ checksum_df[m].md5 = e.checksum)

\* C20: with the observed identifier column given and an expected table of
\* unique non-null identifiers, check_alignment returns None exactly when
\* every expected row has an observed record with its identifier and its
\* checksum, and otherwise returns exactly the rows that have none, in
\* manifest order.
C20_IdChecksumReconciliation ==
    (align.out # NotRun /\ align.args.buddy_id /\ UniqueIds(align.args.img_df)) =>
        LET unmatched == Unmatched(align.args.img_df, align.args.checksum_df)
        IN  IF unmatched = <<>>
            THEN align.out.none
            ELSE ~align.out.none /\ align.out.missing_imgs = unmatched

----------------------------------------------------------------------------
(* C21 *)

\* the expected rows whose checksum equals no observed checksum, in
\* manifest order
UnmatchedSum(img_df, checksum_df) ==
    SelectSeq(img_df,
              LAMBDA e : ~\E m \in DOMAIN checksum_df : checksum_df[m].md5 = e.checksum)

\* C21: with no observed identifier column and an expected table of unique
\* non-null identifiers, check_alignment returns None exactly when every
\* expected checksum occurs among the observed checksums, and otherwise
\* returns exactly the expected rows whose checksum is not observed.
C21_ChecksumReconciliation ==
    (align.out # NotRun /\ ~align.args.buddy_id /\ UniqueIds(align.args.img_df)) =>
        LET unmatched == UnmatchedSum(align.args.img_df, align.args.checksum_df)
        IN  IF unmatched = <<>>
            THEN align.out.none
            ELSE ~align.out.none /\ align.out.missing_imgs = unmatched

----------------------------------------------------------------------------
(* C22 *)

\* C22: validate_download called with an empty expected table or an empty
\* observed table raises EmptyDataFrameError; it does not end as it does
\* when nothing is missing (None returned, no report written).
C22_EmptyInputIsAnError ==
    (align.out # NotRun /\ (align.args.img_df = <<>> \/ align.args.checksum_df = <<>>)) =>
        /\ align.out.raised = "EmptyDataFrameError"
        /\ ~(align.out.none /\ ~align.out.report.written)

----------------------------------------------------------------------------
(* C23 *)

\* the expected rows without a matching observed record, matched on
\* identifier and checksum when the observed identifier column is given,
\* on the checksum alone otherwise
MissingRows(args) ==
    IF args.buddy_id
    THEN Unmatched(args.img_df, args.checksum_df)
    ELSE UnmatchedSum(args.img_df, args.checksum_df)

\* C23: for an expected table of unique non-null identifiers,
\* validate_download returns the expected rows that have no matching
\* observed record when there is at least one, and None when there is none.
C23_ValidateReturnsMissing ==
    (align.out # NotRun /\ UniqueIds(align.args.img_df)) =>
        IF MissingRows(align.args) = <<>>
        THEN align.out.none
        ELSE ~align.out.none /\ align.out.missing_imgs = MissingRows(align.args)

----------------------------------------------------------------------------
(* C24 *)

\* the call of resolve_filename_with_extension has returned
ResolveReturned == resolved.out # NotRun
\* the extensions of the identifier and of the URL of the call
IdExt == resolved.args.base_filename.ext
UrlExt == resolved.args.url.ext
\* the URL of the call is one a fetch may be attempted on
UrlValid == ~resolved.args.url.na /\ UrlStr(resolved.args.url) # ""
\* the main content type the probe's answer carries, NoCT when the probe
\* raises, times out or carries none
AnsweredType(head) ==
    CASE head \in {"image/jpeg", "image/jpeg; charset=utf-8"} -> "image/jpeg"
      [] head = "image/png" -> "image/png"
      [] head = "application/x-unknown" -> "application/x-unknown"
      [] OTHER -> NoCT
\* the two extensions are the same but for case
SameExtIgnoringCase == LowerStrip(IdExt) = LowerStrip(UrlExt)
\* the two extensions differ and map to one known MIME type
SameMimeDifferentExt ==
    /\ ~SameExtIgnoringCase
    /\ guess_type(IdExt) = guess_type(UrlExt)
    /\ guess_type(IdExt) # NoCT
\* the identifier came back unchanged, with no error
IdentifierKept(out) ==
    out.name = resolved.args.base_filename /\ ~out.error /\ out.msg = NoMsg

\* C24: when identifier and URL both carry an extension, the resolver
\* returns the identifier unchanged if the extensions are equal ignoring
\* case (and then issues no probe) or if both map to the same known MIME
\* type and the probe's Content-Type is that type; in every other case it
\* returns no filename and an error message naming both extensions.
C24_BothExtensions ==
    (ResolveReturned /\ UrlValid /\ IdExt # NoExt /\ UrlExt # NoExt) =>
        IF SameExtIgnoringCase
        THEN IdentifierKept(resolved.out) /\ resolved.out.heads = 0
        ELSE IF SameMimeDifferentExt /\ AnsweredType(resolved.args.head) = guess_type(IdExt)
        THEN IdentifierKept(resolved.out)
        ELSE /\ resolved.out.name = NoName
             /\ resolved.out.error
             /\ Len(resolved.out.msg) >= 2
             /\ resolved.out.msg[1] = IdExt
             /\ resolved.out.msg[2] = UrlExt

\* image.jpg against image.jpeg, the server answering image/jpeg: kept
C24_Witness ==
    /\ ResolveReturned /\ IdExt = ".jpg" /\ UrlExt = ".jpeg"
    /\ resolved.args.head = "image/jpeg; charset=utf-8"
    /\ IdentifierKept(resolved.out)

\* image.JPG against image.jpg: kept without a probe
C24_WitnessCase ==
    /\ ResolveReturned /\ IdExt = ".JPG" /\ UrlExt = ".jpg"
    /\ IdentifierKept(resolved.out) /\ resolved.out.heads = 0

\* image.jpg against image.png: a conflict
C24_WitnessConflict ==
    /\ ResolveReturned /\ IdExt = ".jpg" /\ UrlExt = ".png"
    /\ resolved.out.error /\ resolved.out.name = NoName

----------------------------------------------------------------------------
(* C25 *)

\* the extension the standard table maps the probe's content type to,
\* NoExt when there is no content type or no mapping
MappedExt(head) ==
    CASE AnsweredType(head) = "image/jpeg" -> ".jpg"
      [] AnsweredType(head) = "image/png" -> ".png"
      [] OTHER -> NoExt

\* C25: with a valid URL and at most one side carrying an extension, the
\* resolver returns the identifier unchanged when only the identifier has
\* one and the identifier with the URL's extension appended when only the
\* URL has one, both without a probe; when neither has one it issues one
\* probe and appends the extension mapped from the Content-Type, or returns
\* the bare identifier when there is no Content-Type or no mapping; it
\* returns no error in any of these cases.
C25_AtMostOneExtension ==
    (ResolveReturned /\ UrlValid /\ (IdExt = NoExt \/ UrlExt = NoExt)) =>
        /\ ~resolved.out.error
        /\ resolved.out.msg = NoMsg
        /\ IF IdExt # NoExt
           THEN /\ resolved.out.name = resolved.args.base_filename
                /\ resolved.out.heads = 0
           ELSE IF UrlExt # NoExt
           THEN /\ FileName(resolved.out.name) =
                     FileName(resolved.args.base_filename) \o UrlExt
                /\ resolved.out.heads = 0
           ELSE /\ FileName(resolved.out.name) =
                     FileName(resolved.args.base_filename) \o MappedExt(resolved.args.head)
                /\ resolved.out.heads = 1

\* '123' and a URL ending in .png: '123.png'
C25_Witness ==
    /\ ResolveReturned /\ IdExt = NoExt /\ UrlExt = ".png"
    /\ FileName(resolved.out.name) = FileName(resolved.args.base_filename) \o ".png"

\* neither side has an extension and the server names no known type
C25_WitnessBare ==
    /\ ResolveReturned /\ UrlValid /\ IdExt = NoExt /\ UrlExt = NoExt
    /\ resolved.args.head = "application/x-unknown"
    /\ resolved.out.name = resolved.args.base_filename /\ resolved.out.heads = 1

----------------------------------------------------------------------------
(* C26 *)

\* identifier and URL of row i carry different extensions
DifferentExts(row) ==
    /\ row.filename.ext # NoExt /\ row.file_url.ext # NoExt
    /\ LowerStrip(row.filename.ext) # LowerStrip(row.file_url.ext)

\* C26: when identifier and URL carry different extensions and the HEAD
\* probe raises, times out or returns no Content-Type, the row ends as an
\* extension conflict: it is skipped, no GET is sent for it, no file is
\* written and the conflict is in the error log.
C26_FailClosed ==
    (InRow /\ DifferentExts(data[i]) /\ probe = "failed") =>
        /\ result = "extension mismatch"
        /\ outcomes = <<>>
        /\ files = filesMark
        /\ image_name = NoName
        /\ Len(ErrNew) = 1
        /\ OkNew = <<>>

C26_Witness ==
    /\ InRow /\ SameKnownMime(data[i]) /\ probe = "failed"
    /\ result = "extension mismatch" /\ heads = 1

----------------------------------------------------------------------------
(* C27 *)

\* the (filename, error) pair of the two executions is the same
SameResult ==
    /\ resolved.out.name = resolved.out.again.name
    /\ resolved.out.error = resolved.out.again.error
    /\ resolved.out.msg = resolved.out.again.msg

\* C27 as stated: two executions with the same identifier and URL whose
\* probes behave differently return the same (filename, error), unless
\* neither the identifier nor the URL carries an extension.
C27_NetworkIndependence ==
    (ResolveReturned /\ ~(IdExt = NoExt /\ UrlExt = NoExt)) => SameResult

\* C27 amended: two executions with the same identifier and URL whose
\* probes behave differently return the same (filename, error), unless
\* neither the identifier nor the URL carries an extension or both carry
\* extensions that differ (ignoring case) and map to the same known MIME
\* type.
C27_NetworkIndependenceButEquivalence ==
    (ResolveReturned /\ ~(IdExt = NoExt /\ UrlExt = NoExt) /\ ~SameMimeDifferentExt) =>
        SameResult

\* a conflicting pair resolved under two different probe behaviours
C27_Witness ==
    /\ ResolveReturned /\ IdExt = ".jpg" /\ UrlExt = ".png"
    /\ resolved.args.head = "image/png" /\ resolved.args.head2 = "raises"
    /\ SameResult /\ resolved.out.error

\* an extension only on the URL, resolved under two probe behaviours
C27_WitnessUrlOnly ==
    /\ ResolveReturned /\ IdExt = NoExt /\ UrlExt = ".png"
    /\ resolved.args.head = "image/jpeg" /\ resolved.args.head2 = "timed out"
    /\ SameResult /\ ~resolved.out.error

----------------------------------------------------------------------------
(* C28 *)

\* the ways a row can end that are recovered locally: skipped for an invalid
\* URL or an extension conflict, already present, given up (retries
\* exhausted, permanent status, exception), or fetched (the resize error,
\* if any, is logged after that)
PerRowOutcomes == {"invalid url", "extension mismatch", "exists", "failed", "success"}

\* the step leaves the body of the loop for row i'
RowEnds ==
    /\ second' = second
    /\ pc \in {"loop", "fetch", "downsample"}
    /\ pc' \notin {"fetch", "downsample"}
    /\ result' \in PerRowOutcomes

C28_Step ==
    /\ (second' = second) => i' \in {i, i + 1}
    /\ (second' = second /\ i' = i + 1) => pc = "loop"
    /\ RowEnds => pc' = (IF i' < Len(data) THEN "loop" ELSE "done")

\* C28: within one call of download_images the rows are taken one by one in
\* manifest order, each once; a row that ends as skipped, already present,
\* given up or fetched (with or without a resize error) is followed by the
\* next row while one is left; the call ends only after the last row or
\* through an error of the file system.
C28_BatchContinues ==
    /\ [](pc = "done" => i = Len(data))
    /\ [](pc = "aborted" => result = "raised")
    /\ [][C28_Step]_vars

\* the second row is fetched after the first ended in the error log
C28_Witness ==
    /\ ~second /\ i = 2 /\ errMark >= 1 /\ result = "success"
    /\ Len(data) >= 2 /\ pc \in {"loop", "done"}

----------------------------------------------------------------------------
(* C29 *)

\* C29: when the primary or the downsized directory comes to exist between
\* the existence check and the creation call, for instance created by
\* another process, no exception ends the run: the creation call returns
\* and the write of the artifact follows.
C29_RaceIsNotAnError == ~(pc = "aborted" /\ result = "raised")

----------------------------------------------------------------------------
(* C30 *)

\* main has run
MainEnded == mainrun.out # NotRun
\* the steps main took
Took(step) == \E k \in DOMAIN mainrun.out.steps : mainrun.out.steps[k] = step

\* the five gates, on the arguments of the run
CsvGate == mainrun.args.csv_path.ext = ".csv"
ColumnsGate ==
    /\ "filename" \in {LowerCol(h) : h \in mainrun.args.headers}
    /\ "file_url" \in mainrun.args.headers
    /\ mainrun.args.subdir_col # "" => mainrun.args.subdir_col \in mainrun.args.headers
UniqueGate ==
    \A j, k \in DOMAIN mainrun.args.data_df :
        (j # k /\ mainrun.args.data_df[j].filename # NullId) =>
            mainrun.args.data_df[j].filename # mainrun.args.data_df[k].filename
NamelessUrls ==
    \E k \in DOMAIN mainrun.args.data_df :
        /\ mainrun.args.data_df[k].filename = NullId
        /\ mainrun.args.data_df[k].file_url # NullId
AcceptGate == NamelessUrls => mainrun.args.answer \in {"y", "Y"}
DirGate == ~mainrun.args.img_dir_exists

\* the message of the first gate that fails
GateMessage ==
    IF ~CsvGate THEN "Expected CSV for input file; extension should be '.csv'"
    ELSE IF ~ColumnsGate
    THEN "The CSV is missing column(s). Please adjust inputs and try again."
    ELSE IF ~UniqueGate THEN "not a unique identifier for this dataset"
    ELSE IF ~AcceptGate THEN "Exited without executing."
    ELSE "already exists. Exited without executing."

C30_WitnessNotUnique ==
    /\ MainEnded /\ CsvGate /\ ColumnsGate /\ ~UniqueGate
    /\ mainrun.out.status = "exit" /\ ~Took("download_images")

----------------------------------------------------------------------------
(* C32 *)

\* inside download_single_image the GETs issued so far are what the budget
\* has lost, and some budget is left
C32_Budget ==
    /\ InRow => Len(outcomes) <= retry
    /\ pc = "fetch" =>
         /\ redo
         /\ attempts_remaining >= 1
         /\ Len(outcomes) = retry - attempts_remaining
         /\ \A k \in 1..Len(outcomes) : IsRetryable(outcomes[k])

\* every pass of the loop issues one GET and either lowers the budget or
\* leaves the loop with the row's fetch ended
C32_Step ==
    pc = "fetch" =>
        /\ GetIssued
        /\ pc' = "fetch" => attempts_remaining' = attempts_remaining - 1
        /\ pc' # "fetch" => result' \in {"success", "failed", "raised"}

\* C32: download_single_image ends after at most `retry` GETs whatever the
\* server answers: while it runs, the GETs issued (exceptions and retryable
\* statuses alike) equal the budget spent and budget is left; each pass of
\* its loop issues one GET and lowers the budget or ends the fetch, in
\* success or in failure (or in the exception of a refused write).
C32_FetchTerminates == []C32_Budget /\ [][C32_Step]_vars

\* a budget of three spent on an exception and two retryable statuses
C32_Witness ==
    /\ InRow /\ retry = 3 /\ result = "failed" /\ pc # "fetch"
    /\ Len(outcomes) = 3 /\ outcomes[1].exc /\ ~outcomes[2].exc /\ ~outcomes[3].exc
    /\ attempts_remaining = 0

----------------------------------------------------------------------------
(* C33 *)

\* the rows check_existing_images marked as present
MarkedPresent == { k \in DOMAIN guard.out.df : guard.out.df[k].in_img_dir }

\* C33: the count of existing files that check_existing_images prints is
\* the number of manifest rows it marked in_img_dir, so that the count plus
\* the number of rows to download is the number of manifest rows, whatever
\* else img_dir holds.
C33_ExistingCountIsOfDesiredFiles ==
    (GuardReturned /\ guard.out.printed) =>
        /\ guard.out.num_existing = Cardinality(MarkedPresent)
        /\ guard.out.num_existing + Len(guard.out.filtered_df) = Len(guard.out.df)

----------------------------------------------------------------------------
(* C35 *)

\* C35: at every point of the first call of download_images, also after a
\* refused write has ended it, every entry of the success log names a file
\* that is on disk in img_dir.
C35_SuccessLogImpliesFile ==
    ~second =>
        \A k \in DOMAIN logfile : PathOf(img_dir, logfile[k].Image) \in DOMAIN files

----------------------------------------------------------------------------
(* C36 *)

\* C36: with retry = 0 a row handed to download_single_image causes no GET
\* and ends with exactly one entry in the error log.
C36_ZeroBudgetIsLogged ==
    (FetchEnded /\ retry = 0) =>
        /\ outcomes = <<>>
        /\ Len(ErrNew) = 1
        /\ OkNew = <<>>

----------------------------------------------------------------------------
(* C34 *)

\* C34: after main's verification (verifier column given, checksum pass
\* done, unique filenames), the missing.csv report is written exactly when
\* some expected row has no matching observed record and then holds exactly
\* those rows; when none is missing no report is written and main announces
\* that all expected images are accounted for.
C34_MainReportsMissing ==
    (align.out # NotRun /\ UniqueIds(align.args.img_df)) =>
        IF MissingRows(align.args) # <<>>
        THEN /\ align.out.report.written
             /\ align.out.report.rows = MissingRows(align.args)
        ELSE /\ ~align.out.report.written
             /\ align.out.said = "Buddy check successful"

----------------------------------------------------------------------------
(* C31 *)

\* C31: in __main__.download_images the downsample step is reached for a row
\* only after that row's fetch succeeded in this call: a row whose fetch
\* failed or that had no URL causes no call of downsample_and_save_image
\* and gets no 'downsized_' entry in the error log.
C31_MainDownsampleOnlyAfterSuccess ==
    (InRow /\ result # "success") =>
        /\ dsCalls = 0
        /\ DownsizedOf(ErrNew) = <<>>

----------------------------------------------------------------------------
(* C37 *)

\* identifier and URL of the row carry the same extension
SameExtension(row) ==
    /\ ~is_url_missing_or_invalid(row.file_url)
    /\ row.filename.ext # NoExt
    /\ row.filename.ext = row.file_url.ext

\* the log with the entry of row i for `code` appended, if there is a code
WithEntry(log, code) ==
    IF code = "" THEN log
    ELSE Append(log, LogEntry(CurName, UrlStr(CurUrl), code))

\* what the loop of __main__.download_images does, from the same state, on
\* the outcome this step of download.download_images got: whether another
\* GET follows, the files and the two logs
MainAgrees(n) ==
    /\ (pc' = "fetch") = ~n.ends
    /\ files' = (IF n.write = "ok" THEN (CurPath :> Body(CurUrl)) @@ files ELSE files)
    /\ logfile' = WithEntry(logfile, IF n.ok THEN "200" ELSE "")
    /\ errfile' = WithEntry(errfile, n.err)

C37_Step ==
    (pc = "fetch" /\ GetIssued /\ SameExtension(data[i])) =>
        /\ \E wr \in {"ok", "oserror"} : MainAgrees(main_pass(Got, wr))
        /\ (pc' \in {"loop", "done"}) =>
               DownsampleNotCalled(PathOf(downsample_path, CurName))

\* C37: on rows whose identifier carries the extension of the URL, every
\* GET of download.download_images is followed by what
\* __main__.download_images does on the same outcome with the same budget
\* left: the same decision to GET again or stop, the same file written, the
\* same entries appended to the two logs, and nothing more for the row once
\* its fetch has failed.
C37_LoopsEquivalent == [][C37_Step]_vars

----------------------------------------------------------------------------
(* C38 *)

\* the names row k can be resolved to
NamesOf(k) ==
    { FileName(ResolveOnce(data[k].filename, data[k].file_url, head).name) :
        head \in {h \in HeadOutcomes :
                    ~ResolveOnce(data[k].filename, data[k].file_url, h).error} }
\* the body on disk is whole
IsComplete(body) == "cut" \notin DOMAIN body
\* no resize has failed in either run
NoResizeError == \A k \in DOMAIN errfile : errfile[k].Response_status # ResizeMsg

\* C38: with downsampling configured and no resize failing, once the later
\* run has completed every row whose whole primary file is on disk has its
\* downsized copy, and so in particular a row that the interruption caught
\* between the write of its primary file and its resize.
C38_DownsizedCopyAfterResume ==
    (second /\ pc = "done" /\ downsample # 0 /\ NoResizeError) =>
        \A k \in DOMAIN data : \A name \in NamesOf(k) :
            (/\ ~is_url_missing_or_invalid(data[k].file_url)
             /\ PathOf(img_dir, name) \in DOMAIN files
             /\ IsComplete(files[PathOf(img_dir, name)])) =>
                PathOf(downsample_path, name) \in DOMAIN dsfiles

----------------------------------------------------------------------------
(* C39 *)

\* C39: in the later run a row is passed over as already present only when
\* the file at its resolved path holds the whole body; a file that the
\* interruption cut short is fetched again.
C39_CutFileIsFetchedAgain ==
    (second /\ InRow /\ result = "exists") => IsComplete(files[CurPath])

====
